---- MODULE Spec2Model ----
\* currobot: application state machine, human-loop controller and scraper
\* runtime, modelled from backend/database/crud.py, backend/main.py,
\* backend/application/human_loop.py and backend/scrapers/base.py.
\*
\* Store model: every AsyncSession has its own transaction.  A handler that
\* runs under get_db() commits when it returns; a session opened with
\* "async with AsyncSessionLocal()" and never committed loses its flushed
\* writes when it is closed.
EXTENDS Integers, Sequences, FiniteSets, TLC

\* ---------------------------------------------------------------------
\* Bounds
\* ---------------------------------------------------------------------
MaxApps == 1
MaxTime == 40
MaxEvents == 10
MaxTasks == 1
MaxRuns == 6
MaxActive == 2
MaxIngestRuns == 2
MaxOutput == 2
MaxPolicyApps == 3
MaxPassCost == 2
MaxPasses == 2
MaxClients == 3
MaxBroadcasts == 4

\* Capacity of a subscriber queue in the model (asyncio.Queue(maxsize=100)).
MaxQueue == 2
MaxCvRuns == 2
MaxRequests == 2
MaxProcesses == 2
MaxDescription == 2
MaxFields == 2
MaxCancelRuns == 3
MaxSweepJobs == 2
MaxSweepApps == 2
MaxDays == 800
MaxEntries == 2
MaxGenerateCalls == 3
MaxCheckpointRuns == 3
MaxTimers == 3
MaxTimerApps == 2

\* Minutes per clock step of the model.
TickStep == 10

\* ---------------------------------------------------------------------
\* Program constants
\* ---------------------------------------------------------------------
human_review_timeout_minutes == 30
human_review_warn_minutes == 25

NULL == "null"

SeqsUpTo(S, n) == UNION { [ 1..k -> S ] : k \in 0..n }
NoTime == 0 - 1
\* Application.quality_score and quality_rubric are nullable: None
NoScore == 0 - 1
NoRubric == [ overall |-> NoScore, passed |-> FALSE ]

ApplicationStatus ==
  { "scraped", "qualified", "cv_generating", "cv_ready", "cv_failed_validation",
    "cv_approved", "application_started", "form_filled", "pending_human_review",
    "submitted_ambiguous", "applied", "acknowledged", "interview_scheduled",
    "interviewed", "offered", "rejected", "withdrawn", "expired" }

AppIds == 1..MaxApps
AllAppIds == 1..(MaxApps + MaxPolicyApps)
Sites == { "lever", "greenhouse" }

VARIABLES
  now,                  \* wall clock, minutes
  applications,         \* committed rows of table applications, by id
  application_events,   \* committed rows of application_events, per application, in commit order
  status_writes,        \* history: every committed write of applications.status, as <<pre, post>>
  timeout_tasks,        \* human_loop._timeout_tasks: application id -> its live handle_session_timeout task
  submit_tasks,         \* every _submit_application task ever created
  submit_clicks,        \* history: clicks made by _click_submit on the external form, per application
  response,             \* last response of an HTTP endpoint
  timer_log,            \* per application, what its handle_session_timeout tasks did: the
                        \* warning notification, the expiry log line
  review_entries        \* history: per application, the times of its committed transitions
                        \* into pending_human_review

appVars == << now, applications, application_events, status_writes,
              timeout_tasks, submit_tasks, submit_clicks, response,
              timer_log, review_entries >>

VARIABLES
  company_blocklist,    \* committed rows of table company_blocklist: the company names
  company_application_rules  \* committed rows of table company_application_rules

polVars == << company_blocklist, company_application_rules >>

VARIABLES
  jobs,                 \* committed rows of table jobs, in insert order
  scraper_runs,         \* committed rows of table scraper_runs, in start order
  run_procs,            \* the executions of BaseScraper.run() in progress
  run_result,           \* the stats dict the last finished run() returned
  last_save             \* history: per site, the last two save loops, oldest first: the
                        \* adapter output, the jobs table left, the jobs_new counted

scrVars == << jobs, scraper_runs, run_procs, run_result, last_save >>

VARIABLES
  detect                \* the execution of confirm_detector.detect_confirmation in progress

detVars == << detect >>

VARIABLES
  hub_clients,          \* SSEHub._clients: the client ids, in insertion order
  hub_queues,           \* the asyncio.Queue made for each client id ever connected
  hub_received,         \* per client id, the messages its stream has yielded
  hub_connects,         \* number of client ids handed out
  hub_broadcasts        \* number of broadcasts made; the payload of a broadcast is its number

hubVars == << hub_clients, hub_queues, hub_received, hub_connects, hub_broadcasts >>

VARIABLES
  cv_task               \* the execution of main._generate_cv_task in progress, or the last one

cvVars == << cv_task >>

VARIABLES
  requests              \* the HTTP requests on an application in progress, by handler slot

reqVars == << requests >>

VARIABLES
  filter_procs          \* the processes that imported visa_filter

filVars == << filter_procs >>

VARIABLES
  form_replay           \* one snapshot of a form page and its replay by the Submit task

repVars == << form_replay >>

VARIABLES
  cancelled_runs        \* history: the ids of the run rows whose run() was cancelled

canVars == << cancelled_runs >>

VARIABLES
  retention             \* the tables of the retention sweep and its clock

retVars == << retention >>

VARIABLES
  drift,                \* one call of the validator's experience check
  ollama,               \* one call of ollama_client.generate
  checkpoint,           \* scraper_runs.checkpoint_json by run id, and what each run loaded
  timers                \* the timer tasks ever created, the map _timeout_tasks, what they emitted

extVars == << drift, ollama, checkpoint, timers >>

\* The variables of the components that run on their own.
auxVars == << detVars, hubVars, cvVars, reqVars, filVars, repVars, canVars, retVars, extVars >>

\* All variables but those of the named component.
exceptDet == << appVars, polVars, scrVars, hubVars, cvVars, reqVars, filVars, repVars, canVars, retVars, extVars >>
exceptHub == << appVars, polVars, scrVars, detVars, cvVars, reqVars, filVars, repVars, canVars, retVars, extVars >>

exceptRet == << appVars, polVars, scrVars, detVars, hubVars, cvVars, reqVars, filVars, repVars,
               canVars, extVars >>

exceptExt == << appVars, polVars, scrVars, detVars, hubVars, cvVars, reqVars, filVars, repVars,
               canVars, retVars >>

vars == << appVars, polVars, scrVars, auxVars >>

\* ---------------------------------------------------------------------
\* Rows
\* ---------------------------------------------------------------------
\* models.Application with the column defaults
NewApplication(company) ==
  [ company |-> company,
    status |-> "scraped",
    updated_at |-> now,
    created_at |-> now,
    form_url |-> NULL,
    form_fields_json |-> NULL,
    form_screenshot_path |-> NULL,
    confirmation_screenshot_path |-> NULL,
    confirmation_signal |-> NULL,
    authorized_by_human |-> FALSE,
    authorized_at |-> NoTime,
    cv_canonical_json |-> NULL,
    cv_adapted_json |-> NULL,
    cv_pdf_path |-> NULL,
    quality_score |-> NoScore,
    quality_rubric |-> NoRubric ]

\* models.ApplicationEvent
\* ApplicationEvent.note: a text, held as the sequence of its parts; None is
\* the empty sequence.
NoNote == << >>

ApplicationEvent(old_status, new_status, triggered_by, note) ==
  [ old_status |-> old_status, new_status |-> new_status, triggered_by |-> triggered_by,
    note |-> note ]

\* crud._log_event: the row added to the session
log_event(evs, old_status, new_status, triggered_by, note) ==
  Append(evs, ApplicationEvent(old_status, new_status, triggered_by, note))

\* The extra_fields of a gate call: a function from column names to values.
NoExtra == [ k \in {} |-> NULL ]

SetFields_Ignored(row, extra_fields) == row

SetFields(row, extra_fields) ==
  [ k \in DOMAIN row |-> IF k \in DOMAIN extra_fields THEN extra_fields[k] ELSE row[k] ]

\* crud.transition_application on the session's object `application` and the
\* session's event list: status, updated_at and the extra fields are written,
\* then one event (old, new, actor) is logged.  There is no check of the pair.
transition_application_NoEvent(sess, new_status, triggered_by, note, extra_fields) ==
  [ app |-> SetFields([ sess.app EXCEPT !.status = new_status, !.updated_at = now ], extra_fields),
    events |-> sess.events,
    writes |-> Append(sess.writes, << sess.app.status, new_status >>) ]

transition_application(sess, new_status, triggered_by, note, extra_fields) ==
  [ app |-> SetFields([ sess.app EXCEPT !.status = new_status, !.updated_at = now ], extra_fields),
    events |-> log_event(sess.events, sess.app.status, new_status, triggered_by, note),
    writes |-> Append(sess.writes, << sess.app.status, new_status >>) ]

\* A session that has loaded application a (crud.get_application).
Session(a) ==
  [ app |-> applications[a], events |-> << >>, writes |-> << >> ]

\* session.commit(): the object's columns and the logged events reach the store.
Commit(a, sess) ==
  /\ applications' = [ applications EXCEPT ![a] = sess.app ]
  /\ application_events' = [ application_events EXCEPT ![a] = @ \o sess.events ]
  /\ status_writes' = [ status_writes EXCEPT ![a] = @ \o sess.writes ]

Exists(a) == a \in DOMAIN applications

CanLog(a) == Len(application_events[a]) < MaxEvents

\* ---------------------------------------------------------------------
\* Application state machine (crud.py) and its callers
\* ---------------------------------------------------------------------

\* crud.create_application, committed by its caller.
create_application(company, max_apps) ==
  /\ Len(applications) < max_apps
  /\ LET a == Len(applications) + 1 IN
       /\ applications' = Append(applications, NewApplication(company))
       /\ application_events' =
            [ application_events EXCEPT ![a] = log_event(<< >>, NULL, "scraped", "system", NoNote) ]
       /\ status_writes' = [ status_writes EXCEPT ![a] = << << NULL, "scraped" >> >> ]
       /\ response' = [ op |-> "create", application_id |-> a, status |-> "created" ]
  /\ UNCHANGED << scrVars, polVars, auxVars, timer_log, review_entries, now, timeout_tasks, submit_tasks, submit_clicks >>

\* The pipeline stages between creation and the filled form (posting
\* qualification, CV generation and approval, form detect and fill) are
\* driven by callers of the gate that walk the chain of section 4.3.
PipelineNext(s) ==
  CASE s = "scraped" -> "qualified"
    [] s = "qualified" -> "cv_generating"
    [] s = "cv_generating" -> "cv_ready"
    [] s = "cv_ready" -> "cv_approved"
    [] s = "cv_approved" -> "application_started"
    [] s = "application_started" -> "form_filled"
    [] OTHER -> s

PipelineStep(a) ==
  /\ Exists(a)
  /\ CanLog(a)
  /\ PipelineNext(applications[a].status) # applications[a].status
  /\ Commit(a, transition_application(Session(a), PipelineNext(applications[a].status),
                                      "system", NoNote, NoExtra))
  /\ response' = [ op |-> "pipeline", application_id |-> a, status |-> "ok" ]
  /\ UNCHANGED << scrVars, polVars, auxVars, timer_log, review_entries, now, timeout_tasks, submit_tasks, submit_clicks >>

\* ---------------------------------------------------------------------
\* Human-loop controller (human_loop.py)
\* ---------------------------------------------------------------------
NoTimer == [ state |-> "none", started_at |-> NoTime ]

\* human_loop._cancel_timeout_task: pop the entry and cancel the task.
cancel_timeout_task(tt, a) == [ tt EXCEPT ![a] = NoTimer ]

\* human_loop.prepare_for_review: screenshot, serialise the fields, store the
\* URL, transition to pending_human_review, replace the timer.
\* fields is what page.evaluate(_JS_SERIALIZE_FIELDS) gave: "filled", or
\* "empty" ({} when the evaluation failed or the page has no field).
prepare_for_review(a, fields) ==
  /\ Exists(a)
  /\ CanLog(a)
  /\ Commit(a, transition_application(Session(a), "pending_human_review", "human_loop",
        << "Form ready for review at", "url" >>,
        [ form_screenshot_path |-> "form.png",
          form_fields_json |-> fields,
          form_url |-> "url" ]))
  /\ timeout_tasks' = [ timeout_tasks EXCEPT ![a] = [ state |-> "sleep_warn", started_at |-> now ] ]
  /\ review_entries' = [ review_entries EXCEPT ![a] = @ \cup { now } ]
  /\ response' = [ op |-> "prepare", application_id |-> a, status |-> "review_ready" ]
  /\ UNCHANGED << scrVars, polVars, auxVars, timer_log, now, submit_tasks, submit_clicks >>

\* The form protocol driver calls prepare_for_review once the form is filled.
PrepareForReview(a) ==
  /\ Exists(a)
  /\ applications[a].status = "form_filled"
  /\ \E fields \in { "filled", "empty" } : prepare_for_review(a, fields)

\* human_loop.handle_session_timeout, first sleep: the warning notification.
TimerWarn(a) ==
  /\ timeout_tasks[a].state = "sleep_warn"
  /\ now >= timeout_tasks[a].started_at + human_review_warn_minutes
  /\ timeout_tasks' = [ timeout_tasks EXCEPT ![a].state = "sleep_expiry" ]
  /\ timer_log' = [ timer_log EXCEPT ![a] = Append(@, "warning") ]
  /\ UNCHANGED << scrVars, polVars, auxVars, review_entries, now, applications, application_events, status_writes,
                  submit_tasks, submit_clicks, response >>

\* human_loop.handle_session_timeout, second sleep: expiry.  The status is
\* left alone; the task logs the expiry and removes its own map entry.
TimerExpire_AutoExpire(a) ==
  /\ timeout_tasks[a].state = "sleep_expiry"
  /\ now >= timeout_tasks[a].started_at + human_review_timeout_minutes
  /\ timeout_tasks' = cancel_timeout_task(timeout_tasks, a)
  /\ timer_log' = [ timer_log EXCEPT ![a] = Append(@, "expired") ]
  /\ Commit(a, transition_application(Session(a), "expired", "system", NoNote, NoExtra))
  /\ UNCHANGED << scrVars, polVars, auxVars, review_entries, now, submit_tasks, submit_clicks, response >>

TimerExpire(a) ==
  /\ timeout_tasks[a].state = "sleep_expiry"
  /\ now >= timeout_tasks[a].started_at + human_review_timeout_minutes
  /\ timeout_tasks' = cancel_timeout_task(timeout_tasks, a)
  /\ timer_log' = [ timer_log EXCEPT ![a] = Append(@, "expired") ]
  /\ UNCHANGED << scrVars, polVars, auxVars, review_entries, now, applications, application_events, status_writes,
                  submit_tasks, submit_clicks, response >>

Tick ==
  /\ now + TickStep <= MaxTime
  /\ now' = now + TickStep
  /\ UNCHANGED << scrVars, polVars, auxVars, timer_log, review_entries, applications, application_events, status_writes,
                  timeout_tasks, submit_tasks, submit_clicks, response >>

\* ---------------------------------------------------------------------
\* Endpoints of main.py; each handler runs under get_db() and is committed
\* when it returns without an exception.
\* ---------------------------------------------------------------------
Response(op, a, st) == [ op |-> op, application_id |-> a, status |-> st ]

\* A row that is not loaded yet.
NoObject ==
  [ company |-> << >>, status |-> NULL, updated_at |-> NoTime, created_at |-> NoTime, form_url |-> NULL,
    form_fields_json |-> NULL, form_screenshot_path |-> NULL,
    confirmation_screenshot_path |-> NULL, confirmation_signal |-> NULL,
    authorized_by_human |-> FALSE, authorized_at |-> NoTime,
    cv_canonical_json |-> NULL, cv_adapted_json |-> NULL, cv_pdf_path |-> NULL,
    quality_score |-> NoScore, quality_rubric |-> NoRubric ]

\* asyncio.create_task(_submit_application(app_id))
NewSubmitTask(a) ==
  [ application_id |-> a, pc |-> "scheduled", app |-> NoObject, events |-> << >>,
    writes |-> << >>, result |-> NULL, confirmed |-> FALSE, signal |-> NULL,
    screenshot_path |-> NULL ]

\* main.authorize_application: the status test that guards the transition.
AuthorizePrecondition_Any(a) == TRUE

AuthorizePrecondition(a) == applications[a].status = "pending_human_review"

\* main.authorize_application: the extra fields of the transition.
authorization_fields_NoTimestamp == [ authorized_by_human |-> TRUE ]

authorization_fields == [ authorized_by_human |-> TRUE, authorized_at |-> now ]

\* main.authorize_application, accepted: transition to cv_approved with the
\* authorization fields, schedule the Submit task.
AuthorizeAccepted(a) ==
  /\ Exists(a)
  /\ AuthorizePrecondition(a)
  /\ CanLog(a)
  /\ Len(submit_tasks) < MaxTasks
  /\ Commit(a, transition_application(Session(a), "cv_approved", "human",
                                      << "Human authorized submission" >>,
                                      authorization_fields))
  /\ submit_tasks' = Append(submit_tasks, NewSubmitTask(a))
  /\ response' = Response("authorize", a, "authorized")
  /\ UNCHANGED << scrVars, polVars, auxVars, timer_log, review_entries, now, timeout_tasks, submit_clicks >>

\* main.authorize_application, refused: 404 for an unknown id, 400 for any
\* status other than pending_human_review; the session has nothing to commit.
AuthorizeRefused(a) ==
  /\ \/ ~Exists(a) /\ response' = Response("authorize", a, "404")
     \/ Exists(a) /\ ~AuthorizePrecondition(a) /\ response' = Response("authorize", a, "400")
  /\ response' # response
  /\ UNCHANGED << scrVars, polVars, auxVars, timer_log, review_entries, now, applications, application_events, status_writes,
                  timeout_tasks, submit_tasks, submit_clicks >>

\* main.reject_application: any existing application goes to withdrawn.
RejectApplication(a) ==
  /\ Exists(a)
  /\ CanLog(a)
  /\ Commit(a, transition_application(Session(a), "withdrawn", "human",
                                      << "Human rejected in review" >>, NoExtra))
  /\ response' = Response("reject", a, "withdrawn")
  /\ UNCHANGED << scrVars, polVars, auxVars, timer_log, review_entries, now, timeout_tasks, submit_tasks, submit_clicks >>

\* ---------------------------------------------------------------------
\* Confirmation classifier (confirm_detector.py)
\* ---------------------------------------------------------------------
\* What one polling tick sees on the page.
Observation(url_changed, error_pattern, success_pattern, form_exists) ==
  [ url_changed |-> url_changed, error_pattern |-> error_pattern,
    success_pattern |-> success_pattern, form_exists |-> form_exists ]

\* The initial value of result.
Undecided_Confirmed == [ confirmed |-> TRUE, signal |-> "submitted_ambiguous" ]

Undecided == [ confirmed |-> FALSE, signal |-> "submitted_ambiguous" ]

\* confirm_detector.detect_confirmation, the polling loop: script holds the
\* observations of the ticks that fit into the confirmation window.
\* One pass of the loop body over what the page shows: the result the pass
\* breaks with, or the unchanged initial result when no signal is positive.
classify_tick(form_present_initially, o) ==
  IF o.url_changed
    THEN IF o.error_pattern
           THEN [ confirmed |-> FALSE, signal |-> "error_detected" ]
           ELSE [ confirmed |-> TRUE, signal |-> "url_change" ]
  ELSE IF o.error_pattern THEN [ confirmed |-> FALSE, signal |-> "error_detected" ]
  ELSE IF o.success_pattern THEN [ confirmed |-> TRUE, signal |-> "success_text" ]
  ELSE IF form_present_initially /\ ~o.form_exists
    THEN [ confirmed |-> TRUE, signal |-> "form_gone" ]
  ELSE Undecided

RECURSIVE detect_loop(_, _)
detect_loop(form_present_initially, script) ==
  IF script = << >> THEN Undecided
  ELSE LET r == classify_tick(form_present_initially, Head(script)) IN
    IF r # Undecided THEN r
    ELSE detect_loop(form_present_initially, Tail(script))

\* confirm_detector.detect_confirmation: the loop, then the final screenshot
\* (the initial screenshot's path when the final one fails).
detect_confirmation(form_present_initially, script, final_screenshot_ok) ==
  LET r == detect_loop(form_present_initially, script) IN
  [ confirmed |-> r.confirmed,
    signal |-> r.signal,
    screenshot_path |-> IF final_screenshot_ok THEN "confirmation.png"
                                               ELSE "confirmation_start.png" ]

Quiet == Observation(FALSE, FALSE, FALSE, TRUE)

\* Page behaviours after the submit click.
PageScripts ==
  { << >>,
    << Quiet >>,
    << Observation(TRUE, FALSE, TRUE, FALSE) >>,
    << Observation(TRUE, TRUE, FALSE, TRUE) >>,
    << Quiet, Observation(FALSE, TRUE, TRUE, TRUE) >>,
    << Quiet, Observation(FALSE, FALSE, TRUE, TRUE) >>,
    << Quiet, Observation(FALSE, FALSE, FALSE, FALSE) >> }

\* ---------------------------------------------------------------------
\* detect_confirmation step by step.  A page text is the set of patterns of
\* the two lists that occur in it; time is counted in check intervals.
\* ---------------------------------------------------------------------
submit_confirm_timeout_seconds == 10
ChecksPerSecond == 2

\* The patterns of _SUCCESS_PATTERNS and _ERROR_PATTERNS that occur in the
\* page texts of this model, and the critical terms among them.
SUCCESS_PATTERNS == { "gracias" }
ERROR_PATTERNS == { "error", "try again", "failed" }
critical_errors == { "failed" }

\* confirm_detector._has_success_pattern
has_success_pattern(text) == text \cap SUCCESS_PATTERNS # {}

\* confirm_detector._has_error_pattern: a critical term, or two patterns.
has_error_pattern_AnyHit(text) == text \cap ERROR_PATTERNS # {}

has_error_pattern(text) ==
  \/ text \cap critical_errors # {}
  \/ Cardinality(text \cap ERROR_PATTERNS) >= 2

\* What a pass of the loop reads from the page: page.url against the initial
\* URL, _get_page_text, _form_exists (FALSE also when the evaluation fails).
PageView(url_changed, text, form_exists) ==
  [ url_changed |-> url_changed, text |-> text, form_exists |-> form_exists ]

PageViews ==
  { PageView(u, t, f) : u \in BOOLEAN, t \in SUBSET (SUCCESS_PATTERNS \cup ERROR_PATTERNS),
                        f \in BOOLEAN }

Observe(view) ==
  Observation(view.url_changed, has_error_pattern(view.text),
              has_success_pattern(view.text), view.form_exists)

\* The deadline, in check intervals after the start of the loop.
Deadline == submit_confirm_timeout_seconds * ChecksPerSecond

\* detect_confirmation up to the loop: initial screenshot, initial URL,
\* _form_exists, the initial result.
DetectStart(form_present_initially) ==
  /\ detect.pc \in { "idle", "done" }
  /\ detect' = [ pc |-> "loop", form_present_initially |-> form_present_initially,
                 elapsed |-> 0, passes |-> 0, view |-> PageView(FALSE, {}, TRUE),
                 result |-> Undecided, screenshot_path |-> "" ]
  /\ UNCHANGED exceptDet

\* One pass of the loop: the sleep of one check interval, then the signals.
\* cost is the time the pass took, the sleep included.
DetectPass(view, cost) ==
  /\ detect.pc = "loop"
  /\ detect.elapsed < Deadline
  /\ LET r == classify_tick(detect.form_present_initially, Observe(view)) IN
       detect' = [ detect EXCEPT !.elapsed = @ + cost,
                                 !.passes = IF @ < MaxPasses THEN @ + 1 ELSE @,
                                 !.view = view,
                                 !.result = r,
                                 !.pc = IF r # Undecided THEN "final" ELSE "loop" ]
  /\ UNCHANGED exceptDet

\* The loop condition fails: the deadline has passed.
DetectDeadline ==
  /\ detect.pc = "loop"
  /\ detect.elapsed >= Deadline
  /\ detect' = [ detect EXCEPT !.pc = "final" ]
  /\ UNCHANGED exceptDet

\* The final screenshot and the return.
DetectReturn(final_screenshot_ok) ==
  /\ detect.pc = "final"
  /\ detect' = [ detect EXCEPT !.pc = "done",
                                !.screenshot_path = IF final_screenshot_ok
                                                      THEN "confirmation.png"
                                                      ELSE "confirmation_start.png" ]
  /\ UNCHANGED exceptDet

\* ---------------------------------------------------------------------
\* Submit task: main._submit_application running human_loop.submit_authorized
\* in a session of its own
\* ---------------------------------------------------------------------
\* human_loop._is_session_expired
is_session_expired(app) ==
  /\ app.updated_at # NoTime
  /\ now > app.updated_at + human_review_timeout_minutes

Returned(t, result) ==
  submit_tasks' = [ submit_tasks EXCEPT ![t].pc = "returned", ![t].result = result ]

\* submit_authorized, steps 1-2: load the application, check the session
\* expiry and the stored form data.
SubmitLoad(t) ==
  /\ t \in DOMAIN submit_tasks
  /\ submit_tasks[t].pc = "scheduled"
  /\ LET a == submit_tasks[t].application_id
         app == applications[a] IN
       IF is_session_expired(app) THEN Returned(t, "expired")
       ELSE IF app.form_url = NULL \/ app.form_fields_json \in { NULL, "empty" }
         THEN Returned(t, "error")
       ELSE submit_tasks' = [ submit_tasks EXCEPT ![t].pc = "page", ![t].app = app ]
  /\ UNCHANGED << scrVars, polVars, auxVars, timer_log, review_entries, now, applications, application_events, status_writes,
                  timeout_tasks, submit_clicks, response >>

\* submit_authorized, steps 3-6: open the page, replay the snapshot, look for
\* a visible submit control and click it.
SubmitClick(t) ==
  /\ t \in DOMAIN submit_tasks
  /\ submit_tasks[t].pc = "page"
  /\ submit_tasks' = [ submit_tasks EXCEPT ![t].pc = "confirm" ]
  /\ submit_clicks' = [ submit_clicks EXCEPT ![submit_tasks[t].application_id] = @ + 1 ]
  /\ UNCHANGED << scrVars, polVars, auxVars, timer_log, review_entries, now, applications, application_events, status_writes,
                  timeout_tasks, response >>

\* submit_authorized, steps 3-6 failing: the Page raised, or _click_submit
\* found no visible control.
SubmitNoClick(t) ==
  /\ t \in DOMAIN submit_tasks
  /\ submit_tasks[t].pc = "page"
  /\ Returned(t, "error")
  /\ UNCHANGED << scrVars, polVars, auxVars, timer_log, review_entries, now, applications, application_events, status_writes,
                  timeout_tasks, submit_clicks, response >>

\* submit_authorized, step 8: the status written for a classifier result.
submit_status_AlwaysApplied(confirmed) == "applied"

submit_status(confirmed) == IF confirmed THEN "applied" ELSE "submitted_ambiguous"

\* submit_authorized, the status returned to the caller.
final_status_Error(confirmed) == "error"

final_status(confirmed) == IF confirmed THEN "applied" ELSE "submitted_ambiguous"

\* submit_authorized, steps 7-10: classify the confirmation, make the gate
\* transition on the task's session, cancel the timer, return the status.
SubmitConfirm(t) ==
  /\ t \in DOMAIN submit_tasks
  /\ submit_tasks[t].pc = "confirm"
  /\ \E form0 \in BOOLEAN, script \in PageScripts, shot \in BOOLEAN :
       LET task == submit_tasks[t]
           confirmation == detect_confirmation(form0, script, shot)
           new_status == submit_status(confirmation.confirmed)
           sess == transition_application(
                     [ app |-> task.app, events |-> task.events, writes |-> task.writes ],
                     new_status, "human_loop.submit_authorized",
                     << "Signal", confirmation.signal >>,
                     [ confirmation_screenshot_path |-> confirmation.screenshot_path,
                       confirmation_signal |-> confirmation.signal,
                       authorized_by_human |-> TRUE,
                       authorized_at |-> now ])
       IN submit_tasks' = [ submit_tasks EXCEPT ![t] =
            [ task EXCEPT !.pc = "returned", !.app = sess.app, !.events = sess.events,
                          !.writes = sess.writes,
                          !.result = final_status(confirmation.confirmed),
                          !.confirmed = confirmation.confirmed,
                          !.signal = confirmation.signal,
                          !.screenshot_path = confirmation.screenshot_path ] ]
  /\ timeout_tasks' = cancel_timeout_task(timeout_tasks, submit_tasks[t].application_id)
  /\ UNCHANGED << scrVars, polVars, auxVars, timer_log, review_entries, now, applications, application_events, status_writes,
                  submit_clicks, response >>

\* submit_authorized, steps 7-8 raising (the Page or the flush): caught by
\* the outer handler, which returns error.
SubmitConfirmError(t) ==
  /\ t \in DOMAIN submit_tasks
  /\ submit_tasks[t].pc = "confirm"
  /\ Returned(t, "error")
  /\ UNCHANGED << scrVars, polVars, auxVars, timer_log, review_entries, now, applications, application_events, status_writes,
                  timeout_tasks, submit_clicks, response >>

\* main._submit_application: the session is closed without a commit, so
\* what the task flushed does not reach the store.
SubmitClose(t) ==
  /\ t \in DOMAIN submit_tasks
  /\ submit_tasks[t].pc = "returned"
  /\ submit_tasks' = [ submit_tasks EXCEPT ![t].pc = "closed" ]
  /\ response' = Response("submitted", submit_tasks[t].application_id, submit_tasks[t].result)
  /\ UNCHANGED << scrVars, polVars, auxVars, timer_log, review_entries, now, applications, application_events, status_writes,
                  timeout_tasks, submit_clicks >>

\* ---------------------------------------------------------------------
\* SSE hub (main.py)
\* ---------------------------------------------------------------------
\* SSEHub.connect: a fresh client id with an empty queue of bounded size.
connect ==
  /\ hub_connects < MaxClients
  /\ hub_connects' = hub_connects + 1
  /\ hub_clients' = Append(hub_clients, hub_connects + 1)
  /\ hub_queues' = Append(hub_queues, << >>)
  /\ hub_received' = Append(hub_received, << >>)
  /\ UNCHANGED << exceptHub, hub_broadcasts >>

Remove(clients, cids) == SelectSeq(clients, LAMBDA c : c \notin cids)

\* SSEHub.disconnect, called when a client's stream ends.
disconnect(client_id) ==
  /\ \E i \in DOMAIN hub_clients : hub_clients[i] = client_id
  /\ hub_clients' = Remove(hub_clients, { client_id })
  /\ UNCHANGED << exceptHub, hub_queues, hub_received, hub_connects, hub_broadcasts >>

\* The first loop of SSEHub.broadcast over the clients in dict order:
\* put_nowait on each queue; a full queue puts its client on the dead list.
RECURSIVE put_all_StopAtFull(_, _, _, _)
put_all_StopAtFull(clients, queues, payload, dead) ==
  IF clients = << >> THEN [ queues |-> queues, dead |-> dead ]
  ELSE LET cid == Head(clients) IN
    IF Len(queues[cid]) < MaxQueue
      THEN put_all_StopAtFull(Tail(clients), [ queues EXCEPT ![cid] = Append(@, payload) ],
                              payload, dead)
      ELSE [ queues |-> queues, dead |-> dead \cup { cid } ]

RECURSIVE put_all(_, _, _, _)
put_all(clients, queues, payload, dead) ==
  IF clients = << >> THEN [ queues |-> queues, dead |-> dead ]
  ELSE LET cid == Head(clients) IN
    IF Len(queues[cid]) < MaxQueue
      THEN put_all(Tail(clients), [ queues EXCEPT ![cid] = Append(@, payload) ], payload, dead)
      ELSE put_all(Tail(clients), queues, payload, dead \cup { cid })

\* SSEHub.broadcast: no await inside, so it runs without interleaving.
broadcast ==
  /\ hub_broadcasts < MaxBroadcasts
  /\ LET payload == hub_broadcasts + 1
         put == put_all(hub_clients, hub_queues, payload, {}) IN
       /\ hub_broadcasts' = payload
       /\ hub_queues' = put.queues
       /\ hub_clients' = Remove(hub_clients, put.dead)
  /\ UNCHANGED << exceptHub, hub_received, hub_connects >>

\* SSEHub.stream: q.get() returned the oldest message and it is yielded.
\* The stream holds its queue whether or not the client is still registered.
stream_get(client_id) ==
  /\ client_id \in DOMAIN hub_queues
  /\ hub_queues[client_id] # << >>
  /\ hub_received' = [ hub_received EXCEPT ![client_id] = Append(@, Head(hub_queues[client_id])) ]
  /\ hub_queues' = [ hub_queues EXCEPT ![client_id] = Tail(@) ]
  /\ UNCHANGED << exceptHub, hub_clients, hub_connects, hub_broadcasts >>

\* ---------------------------------------------------------------------
\* CV generation (main._generate_cv_task, cv_adapter.adapt_cv, validator.py)
\* ---------------------------------------------------------------------
quality_score_minimum == 7

\* The overall scores quality_check.score_cv returns, one on each side of the
\* minimum.
Scores == { 6, 8 }

NoSession == [ app |-> NoObject, events |-> << >>, writes |-> << >> ]

NoValidation == [ passed |-> FALSE, errors |-> << >> ]

NoCvTask ==
  [ pc |-> "idle", application_id |-> 0, runs |-> 0, loaded |-> NoObject,
    sess |-> NoSession, validated |-> FALSE, validation |-> NoValidation,
    pdf_calls |-> 0, result |-> NULL, raised |-> {} ]

\* validator.validate_cv: the four checks append their errors to one list,
\* in order; the result passes iff the list is empty.
validate_cv_AlwaysPassed(pii, experience, fabrication, language) ==
  [ passed |-> TRUE, errors |-> pii \o experience \o fabrication \o language ]

validate_cv(pii, experience, fabrication, language) ==
  LET errors == pii \o experience \o fabrication \o language IN
  [ passed |-> Len(errors) = 0, errors |-> errors ]

\* quality_check.score_cv: the rubric, with passed set from the threshold.
score_cv(overall) == [ overall |-> overall, passed |-> overall >= quality_score_minimum ]

\* The errors one check of validate_cv can append.
CheckErrors(name) == { << >>, << name >> }

\* What a call of ollama_client.generate_json made by the pipeline comes to:
\* it raises, or it returns an answer (for the fabrication detector, one
\* that flags the document or one that does not).
LlmRaised == "raised"

\* validator._check_fabrication: an error for a flagged document; a call
\* that raised is logged as a warning and appends nothing.
check_fabrication_RaiseIsError(call) ==
  IF call \in { "flagged", LlmRaised } THEN << "Fabrication detected" >> ELSE << >>

check_fabrication(call) ==
  IF call = "flagged" THEN << "Fabrication detected" >> ELSE << >>

\* quality_check._fallback_rubric: the overall score of the rubric used when
\* the scoring call raised.
fallback_overall == 0

\* The LLM calls of one adapt_cv that raised, after call `name` came to `call`.
Raised(name, call) ==
  IF call = LlmRaised THEN cv_task.raised \cup { name } ELSE cv_task.raised

\* POST /api/cv/generate/{application_id}: the task is created whatever the
\* application is.
GenerateCv(a) ==
  /\ cv_task.pc \in { "idle", "done", "failed" }
  /\ cv_task.runs < MaxCvRuns
  /\ cv_task' = [ NoCvTask EXCEPT !.pc = "parse", !.application_id = a,
                                  !.runs = cv_task.runs + 1 ]
  /\ UNCHANGED << appVars, polVars, scrVars, detVars, hubVars, reqVars, filVars, repVars, canVars, retVars, extVars >>

\* _generate_cv_task, first session: the canonical CV is parsed, stored on
\* the application and committed; an unknown application raises.
CvParse ==
  /\ cv_task.pc = "parse"
  /\ LET a == cv_task.application_id IN
     IF ~Exists(a)
       THEN /\ cv_task' = [ cv_task EXCEPT !.pc = "failed", !.result = "ValueError" ]
            /\ UNCHANGED applications
       ELSE /\ applications' = [ applications EXCEPT ![a].cv_canonical_json = "canonical" ]
            /\ cv_task' = [ cv_task EXCEPT !.pc = "adapt" ]
  /\ UNCHANGED << now, application_events, status_writes, timeout_tasks, submit_tasks,
                  submit_clicks, response, timer_log, review_entries >>
  /\ UNCHANGED << polVars, scrVars, detVars, hubVars, reqVars, filVars, repVars, canVars, retVars, extVars >>

\* adapt_cv up to the validation gate: the application is loaded in the
\* second session; steps 1 and 2 build the adapted document, step 2 keeping
\* the structural output when the rewrite call raised.
AdaptStart(rewrite) ==
  /\ cv_task.pc = "adapt"
  /\ LET a == cv_task.application_id IN
     IF applications[a].cv_canonical_json = NULL
       THEN cv_task' = [ cv_task EXCEPT !.pc = "failed", !.result = "ValueError" ]
       ELSE cv_task' = [ cv_task EXCEPT !.pc = "validate", !.loaded = applications[a],
                                        !.sess = Session(a),
                                        !.raised = Raised("rewrite", rewrite) ]
  /\ UNCHANGED << appVars, polVars, scrVars, detVars, hubVars, reqVars, filVars, repVars, canVars, retVars, extVars >>

\* adapt_cv step 3, the validation gate: on failure one transition to
\* cv_failed_validation with the error list as note, and return.
AdaptValidate(pii, experience, fabrication, language) ==
  /\ cv_task.pc = "validate"
  /\ LET validation == validate_cv(pii, experience, check_fabrication(fabrication), language) IN
     IF ~validation.passed
       THEN cv_task' = [ cv_task EXCEPT
                           !.pc = "returned", !.validated = TRUE, !.validation = validation,
                           !.raised = Raised("fabrication", fabrication),
                           !.sess = transition_application(cv_task.sess, "cv_failed_validation",
                                      "cv_adapter", validation.errors, NoExtra),
                           !.result = "failed_validation" ]
       ELSE cv_task' = [ cv_task EXCEPT !.pc = "persist", !.validated = TRUE,
                                        !.validation = validation,
                                        !.raised = Raised("fabrication", fabrication) ]
  /\ UNCHANGED << appVars, polVars, scrVars, detVars, hubVars, reqVars, filVars, repVars, canVars, retVars, extVars >>

\* adapt_cv steps 4 to 6: summary (kept as it was when the call raised),
\* quality score (the fallback rubric when the call raised; never a stop), then the
\* transition to cv_ready with the adapted document, the score and the rubric.
AdaptPersist(summary, quality, overall) ==
  /\ cv_task.pc = "persist"
  /\ LET qc == score_cv(IF quality = LlmRaised THEN fallback_overall ELSE overall) IN
     cv_task' = [ cv_task EXCEPT
                    !.pc = "pdf",
                    !.raised = (IF quality = LlmRaised THEN { "quality" } ELSE {})
                               \cup Raised("summary", summary),
                    !.sess = transition_application(cv_task.sess, "cv_ready", "cv_adapter",
                               NoNote,
                               [ cv_adapted_json |-> "adapted", quality_score |-> qc.overall,
                                 quality_rubric |-> qc ]) ]
  /\ UNCHANGED << appVars, polVars, scrVars, detVars, hubVars, reqVars, filVars, repVars, canVars, retVars, extVars >>

\* adapt_cv step 7: generate_cv_pdf is called; it returns the path, which is
\* stored, or raises.
AdaptPdf(rendered) ==
  /\ cv_task.pc = "pdf"
  /\ IF rendered
       THEN cv_task' = [ cv_task EXCEPT !.pc = "returned", !.pdf_calls = @ + 1,
                                        !.sess.app.cv_pdf_path = "pdf", !.result = "passed" ]
       ELSE cv_task' = [ cv_task EXCEPT !.pc = "failed", !.pdf_calls = @ + 1,
                                        !.result = "RenderError" ]
  /\ UNCHANGED << appVars, polVars, scrVars, detVars, hubVars, reqVars, filVars, repVars, canVars, retVars, extVars >>

\* _generate_cv_task after adapt_cv returned: the second session is closed;
\* it was never committed.
CvTaskClose ==
  /\ cv_task.pc = "returned"
  /\ cv_task' = [ cv_task EXCEPT !.pc = "done" ]
  /\ UNCHANGED << appVars, polVars, scrVars, detVars, hubVars, reqVars, filVars, repVars, canVars, retVars, extVars >>

\* ---------------------------------------------------------------------
\* Concurrent requests (main.py, session.get_db).  A handler is a coroutine:
\* between the await that loads the application and the awaits that flush
\* and commit its writes, the event loop runs other handlers.
\* ---------------------------------------------------------------------
NoRequest == [ op |-> "none", application_id |-> 0, loaded |-> NoObject, sess |-> NoSession ]

\* session.commit() of a request: the UPDATE carries the columns the request
\* changed on the object it loaded, the other columns of the stored row stay;
\* the logged events are inserted.
CommitChanged(a, loaded, sess) ==
  /\ applications' =
       [ applications EXCEPT ![a] =
           [ k \in DOMAIN sess.app |-> IF sess.app[k] # loaded[k] THEN sess.app[k] ELSE @[k] ] ]
  /\ application_events' = [ application_events EXCEPT ![a] = @ \o sess.events ]
  /\ status_writes' = [ status_writes EXCEPT ![a] = @ \o sess.writes ]

\* authorize_application / reject_application up to the return of
\* get_application: the row is loaded into the request's own session.
RequestLoad(r, op, a) ==
  /\ requests[r].op = "none"
  /\ Exists(a)
  /\ requests' = [ requests EXCEPT ![r] = [ op |-> op, application_id |-> a, loaded |-> applications[a],
                                           sess |-> Session(a) ] ]
  /\ UNCHANGED << appVars, polVars, scrVars, detVars, hubVars, cvVars, filVars, repVars, canVars, retVars, extVars >>

\* authorize_application from the status test on, accepted: the test reads
\* the object the request loaded; transition, Submit task, commit by get_db.
AuthorizeRespond(r) ==
  /\ requests[r].op = "authorize"
  /\ requests[r].sess.app.status = "pending_human_review"
  /\ LET a == requests[r].application_id IN
       /\ CanLog(a)
       /\ Len(submit_tasks) < MaxRequests
       /\ CommitChanged(a, requests[r].loaded, transition_application(requests[r].sess, "cv_approved", "human",
                                           << "Human authorized submission" >>,
                                           authorization_fields))
       /\ submit_tasks' = Append(submit_tasks, NewSubmitTask(a))
       /\ response' = Response("authorize", a, "authorized")
  /\ requests' = [ requests EXCEPT ![r] = NoRequest ]
  /\ UNCHANGED << scrVars, polVars, detVars, hubVars, cvVars, filVars, repVars, canVars, retVars, extVars, timer_log, review_entries, now,
                  timeout_tasks, submit_clicks >>

\* authorize_application from the status test on, refused with 400.
AuthorizeRespondRefused(r) ==
  /\ requests[r].op = "authorize"
  /\ requests[r].sess.app.status # "pending_human_review"
  /\ response' = Response("authorize", requests[r].application_id, "400")
  /\ requests' = [ requests EXCEPT ![r] = NoRequest ]
  /\ UNCHANGED << scrVars, polVars, detVars, hubVars, cvVars, filVars, repVars, canVars, retVars, extVars, timer_log, review_entries, now,
                  applications, application_events, status_writes, timeout_tasks,
                  submit_tasks, submit_clicks >>

\* reject_application after get_application: transition, commit by get_db.
RejectRespond(r) ==
  /\ requests[r].op = "reject"
  /\ LET a == requests[r].application_id IN
       /\ CanLog(a)
       /\ CommitChanged(a, requests[r].loaded, transition_application(requests[r].sess, "withdrawn", "human",
                                           << "Human rejected in review" >>, NoExtra))
       /\ response' = Response("reject", a, "withdrawn")
  /\ requests' = [ requests EXCEPT ![r] = NoRequest ]
  /\ UNCHANGED << scrVars, polVars, detVars, hubVars, cvVars, filVars, repVars, canVars, retVars, extVars, timer_log, review_entries, now,
                  timeout_tasks, submit_tasks, submit_clicks >>

\* ---------------------------------------------------------------------
\* Eligibility filter (visa_filter.py).  A posting's title and contract-type
\* text are one word each; its description is a sequence of tokens: words,
\* hour mentions and salary mentions; its salary_raw is a sequence of salary
\* mentions.  A missing field is the empty text.
\* ---------------------------------------------------------------------
SMI_MONTHLY_GROSS == 1134
SMI_ANNUAL_GROSS == 15876
FullTimeHours == 35

\* Keywords of the two closed sets that the postings of this model use.
TEMPORAL_KEYWORDS == { "temporal", "por obra", "eventual" }
PARTTIME_KEYWORDS == { "media jornada", "tiempo parcial" }

\* The orders in which a process may iterate a set of strings: the order
\* follows the string hashes, which are seeded per process.
IterationOrders(keywords) ==
  { order \in [ 1..Cardinality(keywords) -> keywords ] :
      \A i, j \in DOMAIN order : i # j => order[i] # order[j] }

Word(text) == [ kind |-> "word", text |-> text ]

\* An hour mention "<whole>[,<fraction>] horas"; fraction is NoFraction when
\* the number is written without decimals.
NoFraction == 0 - 1
HourMention(whole, fraction) == [ kind |-> "hours", whole |-> whole, fraction |-> fraction ]

\* A salary mention "<raw1>[-<raw2>] [€] [/<period>]", as one match of the
\* pattern of _parse_salary_amounts: the numbers _parse_number returned (0
\* for an absent upper bound), whether a currency marker stands within five
\* characters, and the period word ("" for none).
SalaryMention(raw1, raw2, has_currency, period) ==
  [ kind |-> "salary", raw1 |-> raw1, raw2 |-> raw2, has_currency |-> has_currency,
    period |-> period ]

\* job_data.get(key) or default
Field(job_data, key, default) == IF key \in DOMAIN job_data THEN job_data[key] ELSE default

\* visa_filter.contract_type_expanded
contract_type_expanded(raw) ==
  CASE raw = "td" -> "temporal"
    [] raw = "ti" -> "indefinido"
    [] raw = "fp" -> "formación profesional"
    [] raw = "p" -> "practicas"
    [] OTHER -> raw

\* is_eligible's full_text: title, expanded contract type, description.
full_text(job_data) ==
  << Word(Field(job_data, "title", "")),
     Word(contract_type_expanded(Field(job_data, "contract_type", ""))) >>
  \o Field(job_data, "description", << >>)

Contains(text, kw) == \E i \in DOMAIN text : text[i].kind = "word" /\ text[i].text = kw

\* visa_filter._find_keyword: the first keyword, in the iteration order of
\* the set, that occurs in the text; NULL for none.
find_keyword(text, order) ==
  LET hits == { j \in DOMAIN order : Contains(text, order[j]) } IN
  IF hits = {} THEN NULL
  ELSE order[CHOOSE j \in hits : \A k \in hits : j <= k]

\* The reason of a verdict: the rule, the keyword or period it names, the
\* number it names.
Reason(rule, keyword, value) == [ rule |-> rule, keyword |-> keyword, value |-> value ]
NoReason == Reason(NULL, NULL, 0 - 1)

\* _HOUR_PATTERN on one hour mention: the group is one or two digits that
\* start at a word boundary and stand right before the unit, so of "37,5
\* horas" it captures 5 and of a count of three digits nothing.
Captured(mention) ==
  IF mention.fraction # NoFraction THEN << mention.fraction >>
  ELSE IF mention.whole < 100 THEN << mention.whole >>
  ELSE << >>

RECURSIVE HourCounts(_)
HourCounts(text) ==
  IF text = << >> THEN << >>
  ELSE (IF Head(text).kind = "hours" THEN Captured(Head(text)) ELSE << >>)
       \o HourCounts(Tail(text))

\* visa_filter._check_hours: the first captured count under the full-time
\* hours gives the reason.
check_hours_Inclusive(text) ==
  LET counts == HourCounts(text)
      low == { i \in DOMAIN counts : counts[i] <= FullTimeHours } IN
  IF low = {} THEN NoReason
  ELSE Reason("part-time hours detected", NULL, counts[CHOOSE i \in low : \A k \in low : i <= k])

check_hours(text) ==
  LET counts == HourCounts(text)
      low == { i \in DOMAIN counts : counts[i] < FullTimeHours } IN
  IF low = {} THEN NoReason
  ELSE Reason("part-time hours detected", NULL, counts[CHOOSE i \in low : \A k \in low : i <= k])

ANNUAL_PERIODS == { "año", "ano", "anual", "anuales", "year", "annual" }
MONTHLY_PERIODS == { "mes", "meses", "month" }

\* _parse_salary_amounts, the body of its inner loop: the candidate one
\* amount of a match gives, after the period inference and the sanity clamp.
Candidate(amount, period) ==
  LET period_type == IF period \in ANNUAL_PERIODS THEN "annual"
                     ELSE IF period \in MONTHLY_PERIODS THEN "monthly"
                     ELSE IF amount > 2000 THEN "annual" ELSE "monthly"
      sane == IF period_type = "annual" THEN 5000 < amount /\ amount < 500000
                                        ELSE 300 < amount /\ amount < 30000 IN
  IF amount > 0 /\ sane THEN << [ amount |-> amount, period_type |-> period_type ] >> ELSE << >>

\* _parse_salary_amounts, one match: discarded without period and currency.
MentionCandidates(mention) ==
  IF mention.period = "" /\ ~mention.has_currency THEN << >>
  ELSE Candidate(mention.raw1, mention.period) \o Candidate(mention.raw2, mention.period)

\* visa_filter._parse_salary_amounts
RECURSIVE parse_salary_amounts(_)
parse_salary_amounts(text) ==
  IF text = << >> THEN << >>
  ELSE (IF Head(text).kind = "salary" THEN MentionCandidates(Head(text)) ELSE << >>)
       \o parse_salary_amounts(Tail(text))

\* The threshold test of _check_salary on one candidate.
Passing_Strict(candidate) ==
  IF candidate.period_type = "annual" THEN candidate.amount > SMI_ANNUAL_GROSS
                                      ELSE candidate.amount > SMI_MONTHLY_GROSS

Passing(candidate) ==
  IF candidate.period_type = "annual" THEN candidate.amount >= SMI_ANNUAL_GROSS
                                      ELSE candidate.amount >= SMI_MONTHLY_GROSS

\* visa_filter._check_salary: salary_raw if it is not empty, else the
\* description; disqualified when there are candidates and none passes, the
\* reason naming the first candidate of the largest amount.
check_salary(salary_raw, description) ==
  LET text == IF salary_raw # << >> THEN salary_raw ELSE description
      candidates == parse_salary_amounts(text)
      passing == { i \in DOMAIN candidates : Passing(candidates[i]) }
      best == CHOOSE i \in DOMAIN candidates :
                /\ \A k \in DOMAIN candidates : candidates[k].amount <= candidates[i].amount
                /\ \A k \in 1..(i - 1) : candidates[k].amount < candidates[i].amount IN
  IF candidates = << >> \/ passing # {} THEN NoReason
  ELSE Reason("salary too low for canje", candidates[best].period_type, candidates[best].amount)

Verdict(reason) == [ eligible |-> reason = NoReason, reason |-> reason ]

\* visa_filter.is_eligible in a process whose keyword sets iterate in the
\* given orders: the four rules in order, the first disqualification wins.
is_eligible_SalaryFirst(job_data, temporal_order, parttime_order) ==
  LET text == full_text(job_data)
      description == Field(job_data, "description", << >>)
      matched_temporal == find_keyword(text, temporal_order)
      matched_parttime == find_keyword(text, parttime_order)
      hours_reason == check_hours(text)
      salary_reason == check_salary(Field(job_data, "salary_raw", << >>), description) IN
  IF salary_reason # NoReason THEN Verdict(salary_reason)
  ELSE IF matched_temporal # NULL
    THEN Verdict(Reason("temporal contract detected", matched_temporal, 0 - 1))
  ELSE IF matched_parttime # NULL
    THEN Verdict(Reason("part-time detected", matched_parttime, 0 - 1))
  ELSE Verdict(hours_reason)

is_eligible_in(job_data, temporal_order, parttime_order) ==
  LET text == full_text(job_data)
      description == Field(job_data, "description", << >>)
      matched_temporal == find_keyword(text, temporal_order)
      matched_parttime == find_keyword(text, parttime_order)
      hours_reason == check_hours(text)
      salary_reason == check_salary(Field(job_data, "salary_raw", << >>), description) IN
  IF matched_temporal # NULL
    THEN Verdict(Reason("temporal contract detected", matched_temporal, 0 - 1))
  ELSE IF matched_parttime # NULL
    THEN Verdict(Reason("part-time detected", matched_parttime, 0 - 1))
  ELSE IF hours_reason # NoReason THEN Verdict(hours_reason)
  ELSE Verdict(salary_reason)

\* The iteration orders of the process that runs the scrapers; the postings
\* of the scraper specifications hold at most one keyword, which every order
\* finds.
ScraperTemporalOrder == << "temporal", "por obra", "eventual" >>
ScraperParttimeOrder == << "media jornada", "tiempo parcial" >>

is_eligible(job_data) == is_eligible_in(job_data, ScraperTemporalOrder, ScraperParttimeOrder)

\* One process that imported visa_filter: its two iteration orders and the
\* last posting it evaluated with the verdict.
Posting(title, contract_type, description, salary_raw) ==
  [ title |-> title, contract_type |-> contract_type, description |-> description,
    salary_raw |-> salary_raw ]

NoProcess == [ pc |-> "none", temporal_order |-> << >>, parttime_order |-> << >>,
               job_data |-> Posting("", "", << >>, << >>), result |-> Verdict(NoReason) ]

\* A process starts: its hash seed fixes the iteration order of the sets.
StartProcess(p, temporal_order, parttime_order) ==
  /\ filter_procs[p].pc = "none"
  /\ filter_procs' = [ filter_procs EXCEPT ![p] =
       [ NoProcess EXCEPT !.pc = "started", !.temporal_order = temporal_order,
                          !.parttime_order = parttime_order ] ]
  /\ UNCHANGED << appVars, polVars, scrVars, detVars, hubVars, cvVars, reqVars, repVars, canVars, retVars, extVars >>

\* is_eligible(job_data) is called in process p and computes its verdict.
EvaluateEligibility(p, job_data) ==
  /\ filter_procs[p].pc = "started"
  /\ LET proc == filter_procs[p] IN
     filter_procs' = [ filter_procs EXCEPT ![p] =
       [ proc EXCEPT !.pc = "evaluated", !.job_data = job_data,
                     !.result = is_eligible_in(job_data, proc.temporal_order,
                                               proc.parttime_order) ] ]
  /\ UNCHANGED << appVars, polVars, scrVars, detVars, hubVars, cvVars, reqVars, repVars, canVars, retVars, extVars >>

\* The caller of is_eligible has taken the verdict.
ReturnVerdict(p) ==
  /\ filter_procs[p].pc = "evaluated"
  /\ filter_procs' = [ filter_procs EXCEPT ![p] =
       [ NoProcess EXCEPT !.pc = "started", !.temporal_order = filter_procs[p].temporal_order,
                          !.parttime_order = filter_procs[p].parttime_order ] ]
  /\ UNCHANGED << appVars, polVars, scrVars, detVars, hubVars, cvVars, reqVars, repVars, canVars, retVars, extVars >>

\* ---------------------------------------------------------------------
\* Form snapshot and replay (human_loop.py).  A form page is a sequence of
\* elements; the selector of an element is its position.  Values hold no
\* outer whitespace.
\* ---------------------------------------------------------------------
\* A form element: its type, its value property and its checked state.
Element(type, value, checked) == [ type |-> type, value |-> value, checked |-> checked ]

\* The values a snapshot holds: a JavaScript string or a JavaScript boolean.
Str(s) == [ kind |-> "str", str |-> s, bool |-> FALSE ]
Bool(b) == [ kind |-> "bool", str |-> "", bool |-> b ]

\* Python's truth value and str() of a snapshot value.
truthy(v) == IF v.kind = "bool" THEN v.bool ELSE v.str # ""
py_str(v) == IF v.kind = "bool" THEN (IF v.bool THEN "True" ELSE "False") ELSE v.str

\* el.getAttribute(name) || '': the attribute of an element, '' when the
\* element has none.  The value of a file input stands for its chosen file.
getAttribute(el, name) == IF name \in DOMAIN el THEN el[name] ELSE ""

\* form_filler._fill_field: set_input_files on a file input when the CV
\* file exists (returns the path), a typed or selected value otherwise.
fill_field(el, value, cv_pdf_path) ==
  IF el.type = "file"
    THEN (IF cv_pdf_path # "" THEN [ el EXCEPT !.value = cv_pdf_path ] ELSE el)
  ELSE IF el.type \in { "checkbox", "radio" } THEN [ el EXCEPT !.checked = truthy(value) ]
  ELSE [ el EXCEPT !.value = py_str(value) ]

\* _JS_SERIALIZE_FIELDS on one element: checked for a checkbox or a radio,
\* the data-filled-path attribute for a file input, the value otherwise.
serialize_field(el) ==
  IF el.type \in { "checkbox", "radio" } THEN Bool(el.checked)
  ELSE IF el.type = "file" THEN Str(getAttribute(el, "data-filled-path"))
  ELSE Str(el.value)

\* _JS_SERIALIZE_FIELDS: selector -> serialized value.
serialize_fields(dom) == [ ref \in DOMAIN dom |-> serialize_field(dom[ref]) ]

\* _refill_form_fast on one element: nothing for a falsy value; a file input
\* gets the stored path (the file exists); a checkbox is clicked when its
\* state differs; page.fill writes the text of an input
\* or textarea and raises for a radio (the exception is swallowed);
\* select_option picks the option.
refill_field(el, value) ==
  IF ~truthy(value) THEN el
  ELSE IF el.type = "checkbox"
    THEN (IF el.checked # truthy(value) THEN [ el EXCEPT !.checked = ~@ ] ELSE el)
  ELSE IF el.type = "radio" THEN el
  ELSE [ el EXCEPT !.value = py_str(value) ]

\* _refill_form_fast: every entry of the snapshot in turn.
refill_form_fast(dom, form_fields_json) ==
  [ ref \in DOMAIN dom |-> refill_field(dom[ref], form_fields_json[ref]) ]

\* _verify_fields: the entries whose element's value property differs from
\* str() of the snapshot value.
verify_fields(dom, expected) ==
  { ref \in DOMAIN dom : dom[ref].value # py_str(expected[ref]) }

NoReplay == [ pc |-> "idle", page |-> << >>, filled |-> << >>, form_fields_json |-> << >>,
              dom |-> << >>, mismatches |-> {} ]

\* An element as the page loads it, and the same element after the fill.
Str_Values == { "", "ana" }

FieldCases ==
  { << Element(type, "", FALSE), fill_field(Element(type, "", FALSE), Str(value), "cv.pdf") >> :
      type \in { "text", "textarea", "select" }, value \in Str_Values }
  \cup { << Element(type, "on", FALSE), fill_field(Element(type, "on", FALSE), Bool(checked), "cv.pdf") >> :
           type \in { "checkbox", "radio" }, checked \in BOOLEAN }
  \cup { << Element("file", "", FALSE), fill_field(Element("file", "", FALSE), Str(""), cv_pdf_path) >> :
           cv_pdf_path \in { "", "cv.pdf" } }

\* Detect, Fill, then prepare_for_review step 2: the filled page is
\* serialized.
Snapshot(fields) ==
  /\ form_replay.pc = "idle"
  /\ LET page == [ ref \in DOMAIN fields |-> fields[ref][1] ]
         filled == [ ref \in DOMAIN fields |-> fields[ref][2] ] IN
     form_replay' = [ NoReplay EXCEPT !.pc = "snapshot", !.page = page, !.filled = filled,
                                      !.form_fields_json = serialize_fields(filled) ]
  /\ UNCHANGED << appVars, polVars, scrVars, detVars, hubVars, cvVars, reqVars, filVars, canVars, retVars, extVars >>

\* submit_authorized steps 3 and 4: the page is loaded afresh and refilled.
Replay ==
  /\ form_replay.pc = "snapshot"
  /\ form_replay' = [ form_replay EXCEPT
                        !.pc = "replayed",
                        !.dom = refill_form_fast(form_replay.page, form_replay.form_fields_json) ]
  /\ UNCHANGED << appVars, polVars, scrVars, detVars, hubVars, cvVars, reqVars, filVars, canVars, retVars, extVars >>

\* submit_authorized step 5: _verify_fields.
Verify ==
  /\ form_replay.pc = "replayed"
  /\ form_replay' = [ form_replay EXCEPT
                        !.pc = "verified",
                        !.mismatches = verify_fields(form_replay.dom, form_replay.form_fields_json) ]
  /\ UNCHANGED << appVars, polVars, scrVars, detVars, hubVars, cvVars, reqVars, filVars, canVars, retVars, extVars >>

\* The browser is closed.
ReplayClose ==
  /\ form_replay.pc = "verified"
  /\ form_replay' = NoReplay
  /\ UNCHANGED << appVars, polVars, scrVars, detVars, hubVars, cvVars, reqVars, filVars, canVars, retVars, extVars >>

\* ---------------------------------------------------------------------
\* Experience integrity (validator.py).  A date is the 4-digit year its text
\* holds, or NoYear for a text without one ("Present", "").
\* ---------------------------------------------------------------------
NoYear == 0

ExperienceEntry(company, start_date, end_date) ==
  [ company |-> company, start_date |-> start_date, end_date |-> end_date ]

\* validator._normalise_company on the names used here: lower case, every
\* character that is not a word character removed.
normalise_company(name) ==
  CASE name = "Acme" -> "acme"
    [] name = "ACME." -> "acme"
    [] OTHER -> name

\* re.findall(r"\b(19|20)\d{2}\b", text): with one group in the pattern,
\* findall returns what the group matched for every match, that is the first
\* two digits of each year.
findall(dates) ==
  LET matches == SelectSeq(dates, LAMBDA d : d # NoYear) IN
  [ i \in DOMAIN matches |-> matches[i] \div 100 ]

\* validator._extract_years
extract_years(entry) == findall(<< entry.start_date, entry.end_date >>)

\* Python's min, max and abs.
min(xs) == CHOOSE x \in { xs[i] : i \in DOMAIN xs } : \A i \in DOMAIN xs : x <= xs[i]
max(xs) == CHOOSE x \in { xs[i] : i \in DOMAIN xs } : \A i \in DOMAIN xs : x >= xs[i]
abs(x) == IF x < 0 THEN 0 - x ELSE x

\* The dict comprehension orig_by_company: the last entry of each
\* normalised company.
orig_by_company(orig_exp) ==
  [ key \in { normalise_company(orig_exp[i].company) : i \in DOMAIN orig_exp } |->
      LET last == CHOOSE i \in DOMAIN orig_exp :
                    /\ normalise_company(orig_exp[i].company) = key
                    /\ \A j \in DOMAIN orig_exp :
                         normalise_company(orig_exp[j].company) = key => j <= i
      IN orig_exp[last] ]

\* The date drift loop of _check_experience_integrity, from adapted entry i.
RECURSIVE date_drift(_, _, _)
date_drift(by_company, adap_exp, i) ==
  IF i > Len(adap_exp) THEN << >>
  ELSE LET company_key == normalise_company(adap_exp[i].company)
           rest == date_drift(by_company, adap_exp, i + 1) IN
       IF company_key \notin DOMAIN by_company THEN rest
       ELSE LET orig_years == extract_years(by_company[company_key])
                adap_years == extract_years(adap_exp[i]) IN
            IF /\ orig_years # << >>
               /\ adap_years # << >>
               /\ \/ abs(min(orig_years) - min(adap_years)) > 1
                  \/ abs(max(orig_years) - max(adap_years)) > 1
              THEN << "date_drift" >> \o rest
              ELSE rest

\* validator._check_experience_integrity: the errors it appends.
check_experience_integrity(orig_exp, adap_exp) ==
  LET orig_companies == { normalise_company(orig_exp[i].company) : i \in DOMAIN orig_exp }
      adap_companies == { normalise_company(adap_exp[i].company) : i \in DOMAIN adap_exp }
  IN (IF orig_companies \ adap_companies # {} THEN << "companies_removed" >> ELSE << >>)
     \o (IF Len(adap_exp) > Len(orig_exp) THEN << "extra_entries" >> ELSE << >>)
     \o date_drift(orig_by_company(orig_exp), adap_exp, 1)

\* No run has a checkpoint and no run has loaded one.
NoLoad == [ loaded |-> FALSE, own |-> NULL, result |-> NULL ]

NoCheckpoints ==
  [ checkpoint_json |-> [ i \in 1..MaxCheckpointRuns + 1 |-> NULL ],
    loads |-> [ i \in 1..MaxCheckpointRuns + 1 |-> NoLoad ] ]

NoDrift == [ pc |-> "idle", original |-> << >>, adapted |-> << >>,
             validation |-> NoValidation ]

\* validate_cv on an original and an adapted document whose other three
\* checks find nothing.
ValidateExperience(original, adapted) ==
  /\ drift.pc = "idle"
  /\ drift' = [ pc |-> "validated", original |-> original, adapted |-> adapted,
                validation |-> validate_cv(<< >>, check_experience_integrity(original, adapted),
                                           << >>, << >>) ]
  /\ UNCHANGED << exceptExt, ollama, checkpoint, timers >>

\* The caller drops the result.
ValidateReturn ==
  /\ drift.pc = "validated"
  /\ drift' = NoDrift
  /\ UNCHANGED << exceptExt, ollama, checkpoint, timers >>

\* ---------------------------------------------------------------------
\* LLM client (ollama_client.py)
\* ---------------------------------------------------------------------
\* generate: the attempts of its loop, `for attempt in range(2)`.
Attempts == 2

NoCall == [ pc |-> "idle", attempt |-> 0, posts |-> << >>, restarts |-> 0,
            result |-> NULL, calls |-> 0, history |-> << >> ]

\* generate, the timeout handler: restart and go round again on the first
\* attempt, re-raise otherwise.
restart_on_timeout_Always(attempt) == TRUE

restart_on_timeout(attempt) == attempt = 0

\* A caller calls generate(prompt, model).
GenerateCall ==
  /\ ollama.pc = "idle"
  /\ ollama.calls < MaxGenerateCalls
  /\ ollama' = [ NoCall EXCEPT !.pc = "post", !.calls = ollama.calls + 1,
                               !.history = ollama.history ]
  /\ UNCHANGED << exceptExt, drift, checkpoint, timers >>

\* generate, one attempt: the POST returns a response, times out
\* (httpx.TimeoutException) or fails otherwise (connection refused, HTTP
\* status error, undecodable body).
GeneratePost(outcome) ==
  /\ ollama.pc = "post"
  /\ LET posts == Append(ollama.posts, outcome) IN
     CASE outcome = "response" ->
            ollama' = [ ollama EXCEPT !.pc = "returned", !.posts = posts, !.result = "response" ]
       [] outcome = "timeout" ->
            IF restart_on_timeout(ollama.attempt)
              THEN ollama' = [ ollama EXCEPT !.pc = "restart", !.posts = posts ]
              ELSE ollama' = [ ollama EXCEPT !.pc = "raised", !.posts = posts,
                                             !.result = "TimeoutException" ]
       [] OTHER ->
            ollama' = [ ollama EXCEPT !.pc = "raised", !.posts = posts, !.result = "Exception" ]
  /\ UNCHANGED << exceptExt, drift, checkpoint, timers >>

\* _restart_ollama, then the sleep and the next round of the loop; a loop
\* that ran out of rounds raises RuntimeError.  A restart that fails is
\* logged and the loop goes on.
RestartOllama ==
  /\ ollama.pc = "restart"
  /\ IF ollama.attempt + 1 < Attempts
       THEN ollama' = [ ollama EXCEPT !.pc = "post", !.attempt = @ + 1, !.restarts = @ + 1 ]
       ELSE ollama' = [ ollama EXCEPT !.pc = "raised", !.attempt = @ + 1, !.restarts = @ + 1,
                                      !.result = "RuntimeError" ]
  /\ UNCHANGED << exceptExt, drift, checkpoint, timers >>

\* The call is over: the caller has the response or the exception.
GenerateEnd ==
  /\ ollama.pc \in { "returned", "raised" }
  /\ ollama' = [ NoCall EXCEPT !.calls = ollama.calls,
                               !.history = Append(ollama.history,
                                                  << ollama.posts, ollama.restarts >>) ]
  /\ UNCHANGED << exceptExt, drift, checkpoint, timers >>

\* ---------------------------------------------------------------------
\* The timer tasks of human_loop.py, each with its identity.  A task is
\* sleeping for the warning, sleeping for the expiry, done, or cancelled;
\* `cancelling` is asyncio's pending cancellation: CancelledError is thrown
\* into the task at the await it is suspended in.
\* ---------------------------------------------------------------------
NoTask == 0

NoTimers ==
  [ now |-> 0, tasks |-> << >>, timeout_tasks |-> [ a \in 1..MaxTimerApps |-> NoTask ],
    emitted |-> << >>, detached |-> << >> ]

\* asyncio.Task.done()
done(task) == task.state \in { "done", "cancelled" }

\* asyncio.Task.cancel(): a request that the task's next step honours.
cancel_Ignored(task) == task

cancel(task) == IF done(task) THEN task ELSE [ task EXCEPT !.cancelling = TRUE ]

\* asyncio.create_task(handle_session_timeout(application_id))
create_task(application_id, now_) ==
  [ application_id |-> application_id, state |-> "sleep_warn", cancelling |-> FALSE,
    wake_at |-> now_ + human_review_warn_minutes ]

\* The map entry of application a is dropped or overwritten: the task it
\* held is detached, after what was emitted so far.
Detach(t, a) ==
  IF t.timeout_tasks[a] = NoTask THEN t.detached
  ELSE [ t.detached EXCEPT ![t.timeout_tasks[a]] = Len(t.emitted) ]

\* human_loop._cancel_timeout_task: pop the entry; cancel the task it held
\* unless that task is done.
cancel_timeout_task_of(t, a) ==
  LET task == t.timeout_tasks[a] IN
  [ t EXCEPT !.timeout_tasks[a] = NoTask,
             !.detached = Detach(t, a),
             !.tasks = IF task = NoTask THEN @ ELSE [ @ EXCEPT ![task] = cancel(@) ] ]

\* prepare_for_review, step 5: cancel the task the map holds for the
\* application, create a new one and store it.
TimersPrepare(a) ==
  /\ Len(timers.tasks) < MaxTimers
  /\ LET old == timers.timeout_tasks[a]
         id == Len(timers.tasks) + 1
         cancelled == IF old = NoTask THEN timers.tasks
                      ELSE [ timers.tasks EXCEPT ![old] = cancel(@) ]
     IN timers' = [ timers EXCEPT
                      !.tasks = Append(cancelled, create_task(a, timers.now)),
                      !.timeout_tasks[a] = id,
                      !.detached = Append(Detach(timers, a), NoTime) ]
  /\ UNCHANGED << exceptExt, drift, ollama, checkpoint >>

\* submit_authorized after its transition: _cancel_timeout_task.
TimersCancel(a) ==
  /\ timers.timeout_tasks[a] # NoTask
  /\ timers' = cancel_timeout_task_of(timers, a)
  /\ UNCHANGED << exceptExt, drift, ollama, checkpoint >>

\* handle_session_timeout, the first sleep is over: the warning is sent and
\* the second sleep starts.
TimerTaskWarn(i) ==
  /\ i \in DOMAIN timers.tasks
  /\ timers.tasks[i].state = "sleep_warn"
  /\ ~timers.tasks[i].cancelling
  /\ timers.now >= timers.tasks[i].wake_at
  /\ timers' = [ timers EXCEPT
                   !.tasks[i].state = "sleep_expiry",
                   !.tasks[i].wake_at = timers.now + human_review_timeout_minutes
                                                   - human_review_warn_minutes,
                   !.emitted = Append(@, [ task |-> i, kind |-> "warning", popped |-> NoTask ]) ]
  /\ UNCHANGED << exceptExt, drift, ollama, checkpoint >>

\* handle_session_timeout, the second sleep is over: the expiry is logged
\* and _cancel_timeout_task pops the entry of the task's application; the
\* task that runs is not done, so the pop cancels it as it returns.
TimerTaskExpire(i) ==
  /\ i \in DOMAIN timers.tasks
  /\ timers.tasks[i].state = "sleep_expiry"
  /\ ~timers.tasks[i].cancelling
  /\ timers.now >= timers.tasks[i].wake_at
  /\ LET a == timers.tasks[i].application_id
         logged == [ timers EXCEPT
                       !.emitted = Append(@, [ task |-> i, kind |-> "expired",
                                               popped |-> timers.timeout_tasks[a] ]) ]
         popped == cancel_timeout_task_of(logged, a)
     IN timers' = [ popped EXCEPT !.tasks[i].state = "done", !.tasks[i].cancelling = FALSE ]
  /\ UNCHANGED << exceptExt, drift, ollama, checkpoint >>

\* handle_session_timeout, except asyncio.CancelledError: the task ends.
TimerTaskCancelled(i) ==
  /\ i \in DOMAIN timers.tasks
  /\ timers.tasks[i].cancelling
  /\ ~done(timers.tasks[i])
  /\ timers' = [ timers EXCEPT !.tasks[i].state = "cancelled", !.tasks[i].cancelling = FALSE ]
  /\ UNCHANGED << exceptExt, drift, ollama, checkpoint >>

\* Minutes pass.
TimersTick ==
  /\ timers.now + TickStep <= MaxTime
  /\ timers' = [ timers EXCEPT !.now = @ + TickStep ]
  /\ UNCHANGED << exceptExt, drift, ollama, checkpoint >>

\* ---------------------------------------------------------------------
\* Retention sweep (crud.cleanup_old_records) on the three tables it
\* touches or leaves behind: jobs, applications, application_events.  Rows
\* are held as sets here because the sweep deletes from the middle of a
\* table; the clock is in days.
\* ---------------------------------------------------------------------
jobs_retention_days == 90
applications_retention_days == 365

\* The statuses the sweep removes old applications in.
SweptStatuses == { "rejected", "withdrawn", "expired" }

NoTables == [ today |-> 0, next_job |-> 1, next_application |-> 1,
              jobs |-> {}, applications |-> {}, application_events |-> {} ]

\* A day count passes.
RetentionTick(days) ==
  /\ retention.today + days <= MaxDays
  /\ retention' = [ retention EXCEPT !.today = @ + days ]
  /\ UNCHANGED exceptRet

\* crud.upsert_job, insert branch: a posting row, scraped today.
RetentionInsertJob ==
  /\ retention.next_job <= MaxSweepJobs
  /\ retention' = [ retention EXCEPT
                      !.next_job = @ + 1,
                      !.jobs = @ \cup { [ id |-> retention.next_job,
                                          scraped_at |-> retention.today ] } ]
  /\ UNCHANGED exceptRet

\* crud.create_application for a stored posting: the row and its first event.
RetentionCreateApplication(job_id) ==
  /\ retention.next_application <= MaxSweepApps
  /\ \E job \in retention.jobs : job.id = job_id
  /\ LET id == retention.next_application IN
     retention' = [ retention EXCEPT
                      !.next_application = @ + 1,
                      !.applications = @ \cup { [ id |-> id, job_id |-> job_id,
                                                  status |-> "scraped",
                                                  created_at |-> retention.today ] },
                      !.application_events = @ \cup { [ application_id |-> id,
                                                        old_status |-> NULL,
                                                        new_status |-> "scraped" ] } ]
  /\ UNCHANGED exceptRet

\* main.reject_application: the application goes to withdrawn, with an event.
RetentionReject(application) ==
  /\ application \in retention.applications
  /\ application.status # "withdrawn"
  /\ retention' = [ retention EXCEPT
                      !.applications = (@ \ { application })
                                       \cup { [ application EXCEPT !.status = "withdrawn" ] },
                      !.application_events = @ \cup { [ application_id |-> application.id,
                                                        old_status |-> application.status,
                                                        new_status |-> "withdrawn" ] } ]
  /\ UNCHANGED exceptRet

\* crud.cleanup_old_records: first the old jobs no application references,
\* then the old applications in a swept status; nothing else is deleted.
cleanup_old_records(tables) ==
  LET jobs_cutoff == tables.today - jobs_retention_days
      apps_cutoff == tables.today - applications_retention_days
      jobs_deleted == { job \in tables.jobs :
                          /\ job.scraped_at < jobs_cutoff
                          /\ job.id \notin { application.job_id :
                                               application \in tables.applications } }
      apps_deleted == { application \in tables.applications :
                          /\ application.created_at < apps_cutoff
                          /\ application.status \in SweptStatuses } IN
  [ tables EXCEPT !.jobs = @ \ jobs_deleted, !.applications = @ \ apps_deleted ]

\* The sweep runs and its session is committed.
RetentionSweep ==
  /\ retention' = cleanup_old_records(retention)
  /\ retention' # retention
  /\ UNCHANGED exceptRet

\* ---------------------------------------------------------------------
\* Specification of the application life cycle
\* ---------------------------------------------------------------------
Init ==
  /\ now = 0
  /\ applications = << >>
  /\ application_events = [ a \in AllAppIds |-> << >> ]
  /\ status_writes = [ a \in AllAppIds |-> << >> ]
  /\ timeout_tasks = [ a \in AllAppIds |-> NoTimer ]
  /\ submit_tasks = << >>
  /\ submit_clicks = [ a \in AllAppIds |-> 0 ]
  /\ response = Response("none", 0, NULL)
  /\ timer_log = [ a \in AllAppIds |-> << >> ]
  /\ review_entries = [ a \in AllAppIds |-> {} ]
  /\ company_blocklist = {}
  /\ company_application_rules = {}
  /\ detect = [ pc |-> "idle" ]
  /\ hub_clients = << >>
  /\ hub_queues = << >>
  /\ hub_received = << >>
  /\ hub_connects = 0
  /\ hub_broadcasts = 0
  /\ cv_task = NoCvTask
  /\ requests = [ r \in 1..MaxRequests |-> NoRequest ]
  /\ filter_procs = [ p \in 1..MaxProcesses |-> NoProcess ]
  /\ form_replay = NoReplay
  /\ cancelled_runs = {}
  /\ retention = NoTables
  /\ drift = NoDrift
  /\ ollama = NoCall
  /\ checkpoint = NoCheckpoints
  /\ timers = NoTimers
  /\ jobs = << >>
  /\ scraper_runs = << >>
  /\ run_procs = << >>
  /\ run_result = [ site |-> NULL, jobs_found |-> 0, jobs_new |-> 0, status |-> NULL ]
  /\ last_save = [ site \in Sites |-> << >> ]

Next ==
  \/ Tick
  \/ \E company \in { << "A", "c" >> } : create_application(company, MaxApps)
  \/ \E a \in AppIds : PipelineStep(a)
  \/ \E a \in AppIds : PrepareForReview(a)
  \/ \E a \in AppIds : AuthorizeAccepted(a)
  \/ \E a \in AppIds : AuthorizeRefused(a)
  \/ \E a \in AppIds : RejectApplication(a)
  \/ \E a \in AppIds : TimerWarn(a)
  \/ \E a \in AppIds : TimerExpire(a)
  \/ \E t \in 1..MaxTasks : SubmitLoad(t)
  \/ \E t \in 1..MaxTasks : SubmitClick(t)
  \/ \E t \in 1..MaxTasks : SubmitNoClick(t)
  \/ \E t \in 1..MaxTasks : SubmitConfirm(t)
  \/ \E t \in 1..MaxTasks : SubmitConfirmError(t)
  \/ \E t \in 1..MaxTasks : SubmitClose(t)

Spec == Init /\ [][Next]_vars

\* One step of Submit task t.  The task is an asyncio task that nobody
\* cancels; every await in it is bounded (goto by its timeout, the
\* classifier by its polling budget), so a task that can step does step.
SubmitStep(t) ==
  \/ SubmitLoad(t)
  \/ SubmitClick(t)
  \/ SubmitNoClick(t)
  \/ SubmitConfirm(t)
  \/ SubmitConfirmError(t)
  \/ SubmitClose(t)

SpecSubmit == Init /\ [][Next]_vars /\ \A t \in 1..MaxTasks : WF_vars(SubmitStep(t))

\* The confirmation classifier on its own; a pass that is due is made.
NextConfirm ==
  \/ \E form_present_initially \in BOOLEAN : DetectStart(form_present_initially)
  \/ \E view \in PageViews, cost \in 1..MaxPassCost : DetectPass(view, cost)
  \/ DetectDeadline
  \/ \E final_screenshot_ok \in BOOLEAN : DetectReturn(final_screenshot_ok)

SpecConfirm == Init /\ [][NextConfirm]_vars /\ WF_vars(NextConfirm)

NextHub ==
  \/ connect
  \/ \E client_id \in 1..MaxClients : disconnect(client_id)
  \/ broadcast
  \/ \E client_id \in 1..MaxClients : stream_get(client_id)

SpecHub == Init /\ [][NextHub]_vars

NextCv ==
  \/ \E company \in { << "A", "c" >> } : create_application(company, MaxApps)
  \/ \E a \in AppIds : PipelineStep(a)
  \/ \E a \in AppIds : GenerateCv(a)
  \/ CvParse
  \/ AdaptStart("rewritten")
  \/ \E pii \in CheckErrors("PII mismatch"), experience \in CheckErrors("Experience integrity"),
        fabrication \in { "clean", "flagged" },
        language \in CheckErrors("Language mismatch") :
        AdaptValidate(pii, experience, fabrication, language)
  \/ \E overall \in Scores : AdaptPersist("summary", "scored", overall)
  \/ \E rendered \in BOOLEAN : AdaptPdf(rendered)
  \/ CvTaskClose

SpecCv == Init /\ [][NextCv]_vars

\* The CV task with LLM calls that may raise.
NextLlm ==
  \/ \E company \in { << "A", "c" >> } : create_application(company, MaxApps)
  \/ \E a \in AppIds : PipelineStep(a)
  \/ \E a \in AppIds : GenerateCv(a)
  \/ CvParse
  \/ \E rewrite \in { "rewritten", LlmRaised } : AdaptStart(rewrite)
  \/ \E pii \in CheckErrors("PII mismatch"), experience \in CheckErrors("Experience integrity"),
        fabrication \in { "clean", "flagged", LlmRaised },
        language \in CheckErrors("Language mismatch") :
        AdaptValidate(pii, experience, fabrication, language)
  \/ \E summary \in { "summary", LlmRaised }, quality \in { "scored", LlmRaised },
        overall \in Scores :
        AdaptPersist(summary, quality, overall)
  \/ \E rendered \in BOOLEAN : AdaptPdf(rendered)
  \/ CvTaskClose

SpecLlm == Init /\ [][NextLlm]_vars

NextRequests ==
  \/ \E company \in { << "A", "c" >> } : create_application(company, MaxApps)
  \/ \E a \in AppIds : PipelineStep(a)
  \/ \E a \in AppIds : PrepareForReview(a)
  \/ \E r \in 1..MaxRequests, op \in { "authorize", "reject" }, a \in AppIds : RequestLoad(r, op, a)
  \/ \E r \in 1..MaxRequests : AuthorizeRespond(r)
  \/ \E r \in 1..MaxRequests : AuthorizeRespondRefused(r)
  \/ \E r \in 1..MaxRequests : RejectRespond(r)

SpecRequests == Init /\ [][NextRequests]_vars

\* Concurrent authorize requests and the Submit tasks they schedule.
NextAuthorize ==
  \/ \E company \in { << "A", "c" >> } : create_application(company, MaxApps)
  \/ \E a \in AppIds : PipelineStep(a)
  \/ \E a \in AppIds : PrepareForReview(a)
  \/ \E r \in 1..MaxRequests, a \in AppIds : RequestLoad(r, "authorize", a)
  \/ \E r \in 1..MaxRequests : AuthorizeRespond(r)
  \/ \E r \in 1..MaxRequests : AuthorizeRespondRefused(r)
  \/ \E t \in 1..MaxRequests : SubmitLoad(t)
  \/ \E t \in 1..MaxRequests : SubmitClick(t)
  \/ \E t \in 1..MaxRequests : SubmitNoClick(t)
  \/ \E t \in 1..MaxRequests : SubmitClose(t)

SpecAuthorize == Init /\ [][NextAuthorize]_vars

\* The tokens a description is made of in the eligibility specification.
DescriptionTokens ==
  { Word("eventual"), Word("por obra"), Word("media jornada"), Word("tiempo parcial"),
    HourMention(34, NoFraction), HourMention(35, NoFraction),
    HourMention(37, 5), HourMention(100, NoFraction),
    SalaryMention(900, 0, TRUE, "mes") }

\* The salary mentions of a salary_raw: single amounts at and next to the two
\* thresholds, ranges, amounts without period or without currency, amounts
\* outside the sanity clamps.
SalaryMentions ==
  { SalaryMention(900, 0, TRUE, "mes"), SalaryMention(1133, 0, TRUE, "mes"),
    SalaryMention(1134, 0, TRUE, "mes"), SalaryMention(15875, 0, TRUE, "año"),
    SalaryMention(15876, 0, TRUE, "año"), SalaryMention(1000, 1600, TRUE, "mes"),
    SalaryMention(1000, 1100, TRUE, "mes"), SalaryMention(900, 1134, TRUE, "mes"),
    SalaryMention(800, 0, TRUE, ""), SalaryMention(1500, 0, FALSE, ""),
    SalaryMention(12000, 0, FALSE, "anuales"), SalaryMention(200, 0, TRUE, "mes"),
    SalaryMention(1000, 30000, TRUE, "mes"), SalaryMention(3000, 0, TRUE, "") }

Postings ==
  { Posting("cajero", contract_type, description, salary_raw) :
      contract_type \in { "indefinido", "td" },
      description \in SeqsUpTo(DescriptionTokens, MaxDescription),
      salary_raw \in { << >> } \cup { << mention >> : mention \in SalaryMentions } }

\* One process evaluates postings.
NextEligible ==
  \/ \E temporal_order \in IterationOrders(TEMPORAL_KEYWORDS),
        parttime_order \in IterationOrders(PARTTIME_KEYWORDS) :
        StartProcess(1, temporal_order, parttime_order)
  \/ \E job_data \in Postings : EvaluateEligibility(1, job_data)
  \/ ReturnVerdict(1)

SpecEligible == Init /\ [][NextEligible]_vars

\* Postings with several keywords of one rule, with one, with none.
KeywordPostings ==
  { Posting("cajero", "indefinido", description, << >>) :
      description \in { << >>, << Word("eventual") >>, << Word("eventual"), Word("por obra") >>,
                        << Word("media jornada"), Word("tiempo parcial") >> } }

\* Several processes evaluate postings.
NextProcesses ==
  \/ \E p \in 1..MaxProcesses,
        temporal_order \in IterationOrders(TEMPORAL_KEYWORDS),
        parttime_order \in IterationOrders(PARTTIME_KEYWORDS) :
        StartProcess(p, temporal_order, parttime_order)
  \/ \E p \in 1..MaxProcesses, job_data \in KeywordPostings : EvaluateEligibility(p, job_data)
  \/ \E p \in 1..MaxProcesses : ReturnVerdict(p)

SpecProcesses == Init /\ [][NextProcesses]_vars

\* One form page is snapshotted and replayed.
NextReplay ==
  \/ \E fields \in SeqsUpTo(FieldCases, MaxFields) : Snapshot(fields)
  \/ Replay
  \/ Verify
  \/ ReplayClose

SpecReplay == Init /\ [][NextReplay]_vars

\* Postings and applications are stored, time passes, the sweep runs.
NextRetention ==
  \/ \E days \in { 100, 300 } : RetentionTick(days)
  \/ RetentionInsertJob
  \/ \E job_id \in 1..MaxSweepJobs : RetentionCreateApplication(job_id)
  \/ \E application \in retention.applications : RetentionReject(application)
  \/ RetentionSweep

SpecRetention == Init /\ [][NextRetention]_vars

\* The experience lists of the validation specification.
ExperienceEntries ==
  { ExperienceEntry(company, start_date, 2021) :
      company \in { "Acme", "ACME." }, start_date \in { 2015, 2019, 2020 } }
  \cup { ExperienceEntry("Acme", 1998, NoYear) }

ExperienceLists == SeqsUpTo(ExperienceEntries, MaxEntries)

NextDrift ==
  \/ \E original \in ExperienceLists, adapted \in ExperienceLists :
       ValidateExperience(original, adapted)
  \/ ValidateReturn

SpecDrift == Init /\ [][NextDrift]_vars

NextTimers ==
  \/ TimersTick
  \/ \E a \in 1..MaxTimerApps : TimersPrepare(a)
  \/ \E a \in 1..MaxTimerApps : TimersCancel(a)
  \/ \E i \in 1..MaxTimers : TimerTaskWarn(i)
  \/ \E i \in 1..MaxTimers : TimerTaskExpire(i)
  \/ \E i \in 1..MaxTimers : TimerTaskCancelled(i)

SpecTimers == Init /\ [][NextTimers]_vars

NextGenerate ==
  \/ GenerateCall
  \/ \E outcome \in { "response", "timeout", "error" } : GeneratePost(outcome)
  \/ RestartOllama
  \/ GenerateEnd

SpecGenerate == Init /\ [][NextGenerate]_vars

\* ---------------------------------------------------------------------
\* Company policy (crud.py): blocklist and rate limit.  A company name is a
\* sequence of characters.
\* ---------------------------------------------------------------------
COMPANY_APPLICATION_RULES_DEFAULT_DAYS == 14
COMPANY_APPLICATION_RULES_DEFAULT_MAX == 2

DayMinutes == 24 * 60

\* func.lower(column): SQLite's lower() folds the ASCII letters only.
sql_lower_char(c) ==
  CASE c = "A" -> "a"
    [] c = "C" -> "c"
    [] c = "U" -> "u"
    [] OTHER -> c

\* str.lower(): Python folds every cased character.
py_lower_char(c) ==
  CASE c = "A" -> "a"
    [] c = "C" -> "c"
    [] c = "U" -> "u"
    [] c = "Ñ" -> "ñ"
    [] OTHER -> c

sql_lower(name) == [ i \in DOMAIN name |-> sql_lower_char(name[i]) ]

py_lower(name) == [ i \in DOMAIN name |-> py_lower_char(name[i]) ]

\* crud.is_blocked: the rows whose lowered name equals the lowered argument;
\* scalar_one_or_none() raises when more than one row matches.
BlocklistMatches(company_name) ==
  { e \in company_blocklist : sql_lower(e) = py_lower(company_name) }

is_blocked_raises(company_name) == Cardinality(BlocklistMatches(company_name)) > 1

is_blocked(company_name) == BlocklistMatches(company_name) # {}

\* crud.add_to_blocklist, committed by its caller; the unique constraint on
\* company_name refuses a name that is stored already.
add_to_blocklist(company_name) ==
  /\ company_name \notin company_blocklist
  /\ company_blocklist' = company_blocklist \cup { company_name }
  /\ UNCHANGED << appVars, scrVars, auxVars, company_application_rules >>

\* A row of company_application_rules reaches the table (no function of
\* crud.py writes one).
InsertRule(rule) ==
  /\ \A r \in company_application_rules : r.company_name # rule.company_name
  /\ company_application_rules' = company_application_rules \cup { rule }
  /\ UNCHANGED << appVars, scrVars, auxVars, company_blocklist >>

RuleMatches(company) ==
  { r \in company_application_rules : sql_lower(r.company_name) = py_lower(company) }

\* crud.check_company_rate_limit: TRUE when another application may be made.
check_company_rate_limit(company) ==
  LET found == RuleMatches(company) # {}
      rule == CHOOSE r \in RuleMatches(company) : TRUE
      max_per_period == IF found THEN rule.max_per_period
                                 ELSE COMPANY_APPLICATION_RULES_DEFAULT_MAX
      period_days == IF found THEN rule.period_days
                              ELSE COMPANY_APPLICATION_RULES_DEFAULT_DAYS
      cutoff == now - period_days * DayMinutes
      count == Cardinality({ a \in DOMAIN applications :
                 /\ sql_lower(applications[a].company) = py_lower(company)
                 /\ applications[a].status \notin { "rejected", "withdrawn", "expired" }
                 /\ applications[a].created_at >= cutoff })
  IN count < max_per_period

PolicyResponse(company, st) ==
  [ op |-> "create", company |-> company, status |-> st, at |-> now ]

\* The creation path of section 4.3: the blocklist check, the rate-limit
\* check, then crud.create_application.
CreateApplicationChecked(company, max_apps) ==
  \/ /\ is_blocked_raises(company) \/ Cardinality(RuleMatches(company)) > 1
     /\ response' = PolicyResponse(company, "error")
     /\ UNCHANGED << scrVars, polVars, auxVars, now, applications, application_events, status_writes,
                     timeout_tasks, submit_tasks, submit_clicks, timer_log, review_entries >>
  \/ /\ ~is_blocked_raises(company) /\ Cardinality(RuleMatches(company)) <= 1
     /\ is_blocked(company)
     /\ response' = PolicyResponse(company, "blocked")
     /\ UNCHANGED << scrVars, polVars, auxVars, now, applications, application_events, status_writes,
                     timeout_tasks, submit_tasks, submit_clicks, timer_log, review_entries >>
  \/ /\ ~is_blocked_raises(company) /\ Cardinality(RuleMatches(company)) <= 1
     /\ ~is_blocked(company)
     /\ ~check_company_rate_limit(company)
     /\ response' = PolicyResponse(company, "rate_limited")
     /\ UNCHANGED << scrVars, polVars, auxVars, now, applications, application_events, status_writes,
                     timeout_tasks, submit_tasks, submit_clicks, timer_log, review_entries >>
  \/ /\ ~is_blocked_raises(company) /\ Cardinality(RuleMatches(company)) <= 1
     /\ ~is_blocked(company)
     /\ check_company_rate_limit(company)
     /\ create_application(company, max_apps)

\* The clock of the policy: day 0, the last day of the period, the day after.
PolicyDays == << 0, COMPANY_APPLICATION_RULES_DEFAULT_DAYS,
                 COMPANY_APPLICATION_RULES_DEFAULT_DAYS + 1 >>

TickDays ==
  /\ \E i \in 1..(Len(PolicyDays) - 1) :
       /\ now = PolicyDays[i] * DayMinutes
       /\ now' = PolicyDays[i + 1] * DayMinutes
  /\ UNCHANGED << scrVars, polVars, auxVars, applications, application_events, status_writes,
                  timeout_tasks, submit_tasks, submit_clicks, response, timer_log,
                  review_entries >>

Companies == { << "A", "c" >>, << "Ñ", "u" >> }

Blockable == { << "A", "c" >>, << "a", "c" >>, << "Ñ", "u" >> }

Rules ==
  { [ company_name |-> << "a", "c" >>, max_per_period |-> 1,
      period_days |-> COMPANY_APPLICATION_RULES_DEFAULT_DAYS ] }

NextPolicy ==
  \/ TickDays
  \/ \E company \in Companies : CreateApplicationChecked(company, MaxPolicyApps)
  \/ \E company \in Blockable : add_to_blocklist(company)
  \/ \E rule \in Rules : InsertRule(rule)
  \/ \E a \in 1..MaxPolicyApps :
       /\ a \in DOMAIN applications
       /\ applications[a].status = "scraped"
       /\ RejectApplication(a)

SpecPolicy == Init /\ [][NextPolicy]_vars

\* ---------------------------------------------------------------------
\* Store: jobs and scraper_runs (crud.py)
\* ---------------------------------------------------------------------

\* models.Job built from the adapter's dict; the autoincrement id is assigned
\* when the row is inserted.
Job(site, job_data, status, skip_reason) ==
  [ id |-> 0, site |-> site, external_id |-> job_data.external_id, title |-> job_data.title,
    contract_type |-> job_data.contract_type, status |-> status,
    skip_reason |-> skip_reason ]

Insert(rows, row) == Append(rows, [ row EXCEPT !.id = Len(rows) + 1 ])

Existing(rows, site, external_id) ==
  { i \in DOMAIN rows : rows[i].site = site /\ rows[i].external_id = external_id }

\* crud.upsert_job: insert-or-ignore on (site, external_id).
upsert_job_InsertAlways(rows, row) ==
  [ rows |-> Insert(rows, row), is_new |-> TRUE ]

upsert_job_Overwrite(rows, row) ==
  IF Existing(rows, row.site, row.external_id) # {}
    THEN [ rows |-> [ i \in DOMAIN rows |->
                        IF i \in Existing(rows, row.site, row.external_id)
                          THEN [ row EXCEPT !.id = i ] ELSE rows[i] ],
           is_new |-> FALSE ]
    ELSE [ rows |-> Insert(rows, row), is_new |-> TRUE ]

upsert_job(rows, row) ==
  IF Existing(rows, row.site, row.external_id) # {}
    THEN [ rows |-> rows, is_new |-> FALSE ]
    ELSE [ rows |-> Insert(rows, row), is_new |-> TRUE ]

\* BaseScraper.run, the loop over the adapter's output: filter, mark a
\* disqualified posting skipped with its reason, upsert, count the new
\* eligible ones.
RECURSIVE save_jobs(_, _, _, _)
save_jobs(site, output, rows, jobs_new) ==
  IF output = << >> THEN [ rows |-> rows, jobs_new |-> jobs_new ]
  ELSE LET job_data == Head(output)
           e == is_eligible(job_data)
           row == IF e.eligible THEN Job(site, job_data, "scraped", NoReason)
                                ELSE Job(site, job_data, "skipped", e.reason)
           u == upsert_job(rows, row)
       IN save_jobs(site, Tail(output), u.rows,
                    IF u.is_new /\ e.eligible THEN jobs_new + 1 ELSE jobs_new)

\* crud.start_scraper_run: models.ScraperRun with the column defaults
start_scraper_run(site) ==
  [ site |-> site, status |-> "running", jobs_found |-> 0, jobs_new |-> 0,
    consecutive_zero_runs |-> 0, error_message |-> NULL ]

\* crud.finish_scraper_run: the counter is computed from the finished run's
\* own row.
finish_scraper_run(run, status, jobs_found, jobs_new, error_message) ==
  [ run EXCEPT !.status = status,
               !.jobs_found = jobs_found,
               !.jobs_new = jobs_new,
               !.error_message = IF error_message # NULL THEN error_message ELSE @,
               !.consecutive_zero_runs =
                  IF jobs_found = 0 /\ status = "completed" THEN @ + 1 ELSE 0 ]

SiteRuns(site) == { i \in DOMAIN scraper_runs : scraper_runs[i].site = site }

Max(S) == CHOOSE x \in S : \A y \in S : y <= x

\* crud.get_latest_scraper_run: the site's run started last, 0 when none.
get_latest_scraper_run(site) ==
  IF SiteRuns(site) = {} THEN 0 ELSE Max(SiteRuns(site))

\* ---------------------------------------------------------------------
\* Scraper runtime (base.py), scheduler (scheduler.py) and the manual
\* trigger (main.py)
\* ---------------------------------------------------------------------
consecutive_zero_disable == 5

NewRunProc(site, origin) ==
  [ site |-> site, origin |-> origin, pc |-> "start", run_id |-> 0,
    jobs_found |-> 0, jobs_new |-> 0 ]

LastTwo(s) == IF Len(s) > 2 THEN Tail(s) ELSE s

\* The stats dict run() returns
Stats(site, jobs_found, jobs_new, status) ==
  [ site |-> site, jobs_found |-> jobs_found, jobs_new |-> jobs_new, status |-> status ]

Without(procs, p) == SubSeq(procs, 1, p - 1) \o SubSeq(procs, p + 1, Len(procs))

\* Invocations of run() so far that created or may still create a run row.
Invocations ==
  Len(scraper_runs) + Cardinality({ p \in DOMAIN run_procs : run_procs[p].pc = "start" })

\* The scheduler's job scraper_<site>: with max_instances = 1 a firing is
\* skipped while the job's previous instance is still running.
SchedulerFire(site, max_runs) ==
  /\ Invocations < max_runs
  /\ \A p \in DOMAIN run_procs :
        ~(run_procs[p].site = site /\ run_procs[p].origin = "scheduler")
  /\ run_procs' = Append(run_procs, NewRunProc(site, "scheduler"))
  /\ UNCHANGED << appVars, polVars, auxVars, jobs, scraper_runs, last_save, run_result >>

\* main.trigger_scraper: POST /api/scrapers/{site}/trigger creates the task
\* unconditionally.
TriggerScraper(site, max_runs) ==
  /\ Invocations < max_runs
  /\ Len(run_procs) < MaxActive
  /\ run_procs' = Append(run_procs, NewRunProc(site, "manual"))
  /\ UNCHANGED << appVars, polVars, auxVars, jobs, scraper_runs, last_save, run_result >>

\* BaseScraper.run, first session: the disable test on the latest run, then
\* the new run row, committed.
RunStart(p) ==
  /\ p \in DOMAIN run_procs
  /\ run_procs[p].pc = "start"
  /\ LET site == run_procs[p].site
         latest == get_latest_scraper_run(site) IN
       IF latest # 0 /\ scraper_runs[latest].consecutive_zero_runs >= consecutive_zero_disable
         THEN /\ run_procs' = Without(run_procs, p)
              /\ run_result' = Stats(site, 0, 0, "disabled")
              /\ UNCHANGED scraper_runs
         ELSE /\ scraper_runs' = Append(scraper_runs, start_scraper_run(site))
              /\ run_procs' = [ run_procs EXCEPT ![p].pc = "scrape",
                                                 ![p].run_id = Len(scraper_runs) + 1 ]
              /\ UNCHANGED run_result
  /\ UNCHANGED << appVars, polVars, auxVars, jobs, last_save >>

\* BaseScraper.run: the adapter's scrape() returned output; second session:
\* the save loop, committed.
RunScrape(p, outputs) ==
  /\ p \in DOMAIN run_procs
  /\ run_procs[p].pc = "scrape"
  /\ \E output \in outputs :
       LET saved == save_jobs(run_procs[p].site, output, jobs, 0) IN
       /\ jobs' = saved.rows
       /\ run_procs' = [ run_procs EXCEPT ![p].pc = "finish",
                                          ![p].jobs_found = Len(output),
                                          ![p].jobs_new = saved.jobs_new ]
       /\ last_save' = [ last_save EXCEPT ![run_procs[p].site] =
                           LastTwo(Append(@, [ output |-> output, jobs_after |-> saved.rows,
                                               jobs_new |-> saved.jobs_new ])) ]
  /\ UNCHANGED << appVars, polVars, auxVars, scraper_runs, run_result >>

\* BaseScraper.run: scrape() or the save session raised an Exception; the
\* run is finalised as failed with the error message.
RunFailed(p) ==
  /\ p \in DOMAIN run_procs
  /\ run_procs[p].pc = "scrape"
  /\ scraper_runs' = [ scraper_runs EXCEPT ![run_procs[p].run_id] =
                         finish_scraper_run(@, "failed", 0, 0, "error") ]
  /\ run_procs' = Without(run_procs, p)
  /\ run_result' = Stats(run_procs[p].site, 0, 0, "failed")
  /\ UNCHANGED << appVars, polVars, auxVars, jobs, last_save >>

\* BaseScraper.run is cancelled while scrape(), the save session or the last
\* session awaits: asyncio.CancelledError is a BaseException, the handler
\* `except Exception` does not catch it and run() is left with the run row
\* as it is.
RunCancelled(p) ==
  /\ p \in DOMAIN run_procs
  /\ run_procs[p].pc \in { "scrape", "finish" }
  /\ cancelled_runs' = cancelled_runs \cup { run_procs[p].run_id }
  /\ run_procs' = Without(run_procs, p)
  /\ UNCHANGED << appVars, polVars, detVars, hubVars, cvVars, reqVars, filVars, repVars,
                  retVars, extVars, jobs, scraper_runs, last_save, run_result >>

\* BaseScraper.run, last session: the run is finalised as completed and the
\* stats are returned.
RunFinish(p) ==
  /\ p \in DOMAIN run_procs
  /\ run_procs[p].pc = "finish"
  /\ scraper_runs' = [ scraper_runs EXCEPT ![run_procs[p].run_id] =
                         finish_scraper_run(@, "completed", run_procs[p].jobs_found,
                                            run_procs[p].jobs_new, NULL) ]
  /\ run_procs' = Without(run_procs, p)
  /\ run_result' = Stats(run_procs[p].site, run_procs[p].jobs_found,
                         run_procs[p].jobs_new, "completed")
  /\ UNCHANGED << appVars, polVars, auxVars, jobs, last_save >>

\* ---------------------------------------------------------------------
\* Checkpoints (base.py).  The column scraper_runs.checkpoint_json is kept
\* by run id, next to the run rows.
\* ---------------------------------------------------------------------
\* BaseScraper._load_checkpoint: the checkpoint of the site's latest run
\* row, None when that row has none.
load_checkpoint(site) ==
  LET latest == get_latest_scraper_run(site) IN
  IF latest # 0 /\ checkpoint.checkpoint_json[latest] # NULL
    THEN checkpoint.checkpoint_json[latest]
    ELSE NULL

\* BaseScraper._save_checkpoint, called by the adapter during scrape():
\* the checkpoint is written on the row of the running run and committed.
SaveCheckpoint(p, c) ==
  /\ p \in DOMAIN run_procs
  /\ run_procs[p].pc = "scrape"
  /\ checkpoint.checkpoint_json[run_procs[p].run_id] # c
  /\ checkpoint' = [ checkpoint EXCEPT !.checkpoint_json[run_procs[p].run_id] = c ]
  /\ UNCHANGED << exceptExt, drift, ollama, timers >>

\* BaseScraper._load_checkpoint, called by the adapter during scrape(); the
\* first call of each run is recorded with the run's own checkpoint at that
\* time.
LoadCheckpoint(p) ==
  /\ p \in DOMAIN run_procs
  /\ run_procs[p].pc = "scrape"
  /\ ~checkpoint.loads[run_procs[p].run_id].loaded
  /\ checkpoint' = [ checkpoint EXCEPT !.loads[run_procs[p].run_id] =
                       [ loaded |-> TRUE,
                         own |-> checkpoint.checkpoint_json[run_procs[p].run_id],
                         result |-> load_checkpoint(run_procs[p].site) ] ]
  /\ UNCHANGED << exceptExt, drift, ollama, timers >>

\* ---------------------------------------------------------------------
\* Properties of the application life cycle
\* ---------------------------------------------------------------------
IsAuthorization(ev) ==
  /\ ev.triggered_by = "human"
  /\ ev.new_status = "cv_approved"
  /\ ev.old_status = "pending_human_review"

Authorizations(a) ==
  { i \in DOMAIN application_events[a] : IsAuthorization(application_events[a][i]) }

\* C1: every submit click on the external form of an application is preceded
\* by a human authorization of it: the audit log holds, for each click made,
\* an Event with actor human and new status cv_approved that authorize wrote
\* while the application was in pending_human_review.
C1_AuthorizationPrecedesSubmit ==
  \A a \in AppIds : Cardinality(Authorizations(a)) >= submit_clicks[a]

\* C1 witness: a Submit task has clicked the submit control.
C1_Witness == \E a \in AppIds : submit_clicks[a] >= 1

EventPairs(a) ==
  [ i \in DOMAIN application_events[a] |->
      << application_events[a][i].old_status, application_events[a][i].new_status >> ]

\* C2: the committed Events of an application are in one-to-one
\* correspondence with its committed status changes: the (old, new) pairs of
\* its Events, in order, are the (pre, post) pairs of its status writes (null
\* before the creation), and the last one leads to the stored status.
C2_EventPerStatusChange ==
  \A a \in AppIds :
    /\ EventPairs(a) = status_writes[a]
    /\ Exists(a) =>
         /\ Len(application_events[a]) >= 1
         /\ application_events[a][1].old_status = NULL
         /\ application_events[a][Len(application_events[a])].new_status = applications[a].status
    /\ ~Exists(a) => application_events[a] = << >>

\* C2 witness: an application with a creation and several transitions by
\* different callers of the gate.
C2_Witness ==
  \E a \in AppIds :
    /\ Exists(a)
    /\ Len(application_events[a]) >= 9
    /\ applications[a].status = "cv_approved"
    /\ applications[a].authorized_by_human

\* The state set of section 4.3.
Terminal == { "cv_failed_validation", "rejected", "withdrawn", "expired" }

Edges ==
  { << "scraped", "qualified" >>, << "qualified", "cv_generating" >>,
    << "cv_generating", "cv_ready" >>, << "cv_ready", "cv_approved" >>,
    << "cv_approved", "application_started" >>, << "application_started", "form_filled" >>,
    << "form_filled", "pending_human_review" >>,
    << "pending_human_review", "submitted_ambiguous" >>, << "pending_human_review", "applied" >>,
    << "applied", "acknowledged" >>, << "acknowledged", "interview_scheduled" >>,
    << "interview_scheduled", "interviewed" >>, << "interviewed", "offered" >>,
    << "interviewed", "rejected" >>, << "cv_generating", "cv_failed_validation" >> }
  \cup ((ApplicationStatus \ Terminal) \X { "rejected", "withdrawn", "expired" })

\* C3: the gate refuses every status change that is not an edge of the state
\* set: a step that writes an application's row or appends to its Event log
\* goes along an edge.
C3_GateRefusesNonEdges ==
  [][ \A a \in DOMAIN applications :
        ( applications'[a] # applications[a]
          \/ application_events'[a] # application_events[a] )
        => << applications[a].status, applications'[a].status >> \in Edges ]_vars

\* C4: authorize succeeds if and only if the application is in
\* pending_human_review and the request is made within the review window: a
\* step that takes an application to cv_approved with the authorization flag
\* starts in pending_human_review at a time not later than review start (the
\* time it entered pending_human_review) plus timeout_minutes.
C4_AuthorizeOnlyWithinWindow ==
  [][ \A a \in DOMAIN applications :
        ( response'.op = "authorize" /\ response'.application_id = a
          /\ response'.status = "authorized"
          /\ applications'[a] # applications[a] )
        => /\ applications[a].status = "pending_human_review"
           /\ now <= applications[a].updated_at + human_review_timeout_minutes ]_vars

\* C5: a Submit task that classified the confirmation made one gate
\* transition, to applied when the classifier confirmed and to
\* submitted_ambiguous otherwise, that stored the classifier's signal and
\* screenshot path, and it returned the status it wrote.
C5_SubmitOutcomeWritten ==
  \A t \in DOMAIN submit_tasks :
    LET task == submit_tasks[t] IN
    task.signal # NULL =>
      /\ task.app.status = (IF task.confirmed THEN "applied" ELSE "submitted_ambiguous")
      /\ task.result = task.app.status
      /\ task.app.confirmation_signal = task.signal
      /\ task.app.confirmation_screenshot_path = task.screenshot_path
      /\ Len(task.events) = 1
      /\ task.events[1].new_status = task.app.status
      /\ task.events[1].triggered_by = "human_loop.submit_authorized"

\* C5 witness: a Submit task whose classifier found an error and that
\* returned submitted_ambiguous.
C5_Witness ==
  \E t \in DOMAIN submit_tasks :
    /\ submit_tasks[t].signal = "error_detected"
    /\ submit_tasks[t].result = "submitted_ambiguous"
    /\ submit_tasks[t].screenshot_path = "confirmation_start.png"

\* ---------------------------------------------------------------------
\* Specifications of the scraper runtime
\* ---------------------------------------------------------------------
JobData(external_id, title, contract_type) ==
  [ external_id |-> external_id, title |-> title, contract_type |-> contract_type ]

\* Two versions of posting e1 (the second with another title and a temporal
\* contract) and one posting e2.
JobDicts ==
  { JobData("e1", "t1", "indefinido"), JobData("e1", "t2", "temporal"),
    JobData("e2", "t1", "indefinido") }

\* What an adapter's scrape() may return in the ingestion specification.
IngestOutputs == SeqsUpTo(JobDicts, MaxOutput)

\* What an adapter's scrape() may return in the run-counter specification.
RunOutputs == { << >>, << JobData("e1", "t1", "indefinido") >> }

NextRuns ==
  \/ \E site \in { "lever" } : SchedulerFire(site, MaxRuns)
  \/ \E site \in { "lever" } : TriggerScraper(site, MaxRuns)
  \/ \E p \in 1..MaxActive + 1 : RunStart(p)
  \/ \E p \in 1..MaxActive + 1 : RunScrape(p, RunOutputs)
  \/ \E p \in 1..MaxActive + 1 : RunFailed(p)
  \/ \E p \in 1..MaxActive + 1 : RunFinish(p)

SpecRuns == Init /\ [][NextRuns]_vars

\* The runs of one site, any of which may be cancelled from outside.
NextCancel ==
  \/ \E site \in { "lever" } : SchedulerFire(site, MaxCancelRuns)
  \/ \E site \in { "lever" } : TriggerScraper(site, MaxCancelRuns)
  \/ \E p \in 1..MaxActive + 1 : RunStart(p)
  \/ \E p \in 1..MaxActive + 1 : RunScrape(p, RunOutputs)
  \/ \E p \in 1..MaxActive + 1 : RunFailed(p)
  \/ \E p \in 1..MaxActive + 1 : RunCancelled(p)
  \/ \E p \in 1..MaxActive + 1 : RunFinish(p)

SpecCancel == Init /\ [][NextCancel]_vars

\* The scheduled runs of one site, whose adapter saves and loads checkpoints.
NextCheckpoint ==
  \/ \E site \in { "lever" } : SchedulerFire(site, MaxCheckpointRuns)
  \/ \E p \in 1..MaxActive + 1 : RunStart(p)
  \/ \E p \in 1..MaxActive + 1, c \in { "page 2", "page 3" } : SaveCheckpoint(p, c)
  \/ \E p \in 1..MaxActive + 1 : LoadCheckpoint(p)
  \/ \E p \in 1..MaxActive + 1 : RunScrape(p, RunOutputs)
  \/ \E p \in 1..MaxActive + 1 : RunFailed(p)
  \/ \E p \in 1..MaxActive + 1 : RunFinish(p)

SpecCheckpoint == Init /\ [][NextCheckpoint]_vars

NextIngest ==
  \/ \E site \in Sites : SchedulerFire(site, MaxIngestRuns)
  \/ \E site \in Sites : TriggerScraper(site, MaxIngestRuns)
  \/ \E p \in 1..MaxActive + 1 : RunStart(p)
  \/ \E p \in 1..MaxActive + 1 : RunScrape(p, IngestOutputs)
  \/ \E p \in 1..MaxActive + 1 : RunFailed(p)
  \/ \E p \in 1..MaxActive + 1 : RunFinish(p)

SpecIngest == Init /\ [][NextIngest]_vars

\* ---------------------------------------------------------------------
\* Properties of scraper runs and ingestion
\* ---------------------------------------------------------------------
\* The last n runs of a site, by start order.
LastRuns(site, n) ==
  { i \in SiteRuns(site) : Cardinality({ j \in SiteRuns(site) : j > i }) < n }

CompletedZero(i) ==
  scraper_runs[i].status = "completed" /\ scraper_runs[i].jobs_found = 0

\* The site's last five runs all finished completed with jobs_found = 0.
FiveZeroRuns(site) ==
  /\ Cardinality(LastRuns(site, 5)) = 5
  /\ \A i \in LastRuns(site, 5) : CompletedZero(i)

\* C6: after five consecutive runs of a source that each finished completed
\* with jobs_found = 0, the next invocation of run() for the source creates
\* no run row and returns status disabled.
C6_DisabledAfterFiveZeroRuns ==
  [][ \A site \in Sites :
        FiveZeroRuns(site) =>
          /\ SiteRuns(site)' = SiteRuns(site)
          /\ (Len(run_procs') < Len(run_procs) /\ run_result'.site = site)
               => run_result'.status = "disabled" ]_vars

\* The run of the same site started just before run i, 0 when i is the first.
PrevRun(i) ==
  LET earlier == { j \in SiteRuns(scraper_runs[i].site) : j < i } IN
  IF earlier = {} THEN 0 ELSE Max(earlier)

\* Length of the longest suffix of the site's runs, ending at run i, that are
\* all completed with jobs_found = 0.
RECURSIVE ZeroSuffix(_)
ZeroSuffix(i) ==
  IF i = 0 THEN 0
  ELSE IF CompletedZero(i) THEN 1 + ZeroSuffix(PrevRun(i)) ELSE 0

\* C7: once a run and all earlier runs of its source are finalised, the run's
\* consecutive_zero_runs is the length of the longest suffix of the source's
\* runs ending at it that are all completed with jobs_found = 0.
C7_CounterIsZeroSuffix ==
  \A i \in DOMAIN scraper_runs :
    (\A j \in SiteRuns(scraper_runs[i].site) : j <= i => scraper_runs[j].status # "running")
      => scraper_runs[i].consecutive_zero_runs = ZeroSuffix(i)

SiteJobs(rows, site) == { rows[i] : i \in { j \in DOMAIN rows : rows[j].site = site } }

\* C8: when the last two save loops of a source stored the same adapter
\* output, the source's stored postings after the second equal those after
\* the first and the second counted jobs_new = 0.
C8_UpsertIdempotent ==
  \A site \in Sites :
    (Len(last_save[site]) = 2 /\ last_save[site][1].output = last_save[site][2].output)
      => /\ SiteJobs(last_save[site][2].jobs_after, site)
              = SiteJobs(last_save[site][1].jobs_after, site)
         /\ last_save[site][2].jobs_new = 0

\* C8 witness: a source saved the same non-empty output twice, and the first
\* save counted a new posting.
C8_Witness ==
  \E site \in Sites :
    /\ Len(last_save[site]) = 2
    /\ last_save[site][1].output = last_save[site][2].output
    /\ last_save[site][1].output # << >>
    /\ last_save[site][1].jobs_new >= 1
    /\ SiteJobs(jobs, site) # {}

\* C9: the store holds at most one posting per (site, external_id); a step
\* changes no stored row, and a save loop counts as new only eligible rows it
\* inserted.
C9_FirstInsertWins ==
  [][ /\ \A i, j \in DOMAIN jobs' :
           (jobs'[i].site = jobs'[j].site /\ jobs'[i].external_id = jobs'[j].external_id)
             => i = j
      /\ Len(jobs') >= Len(jobs)
      /\ SubSeq(jobs', 1, Len(jobs)) = jobs
      /\ \A site \in Sites :
           last_save'[site] # last_save[site] =>
             last_save'[site][Len(last_save'[site])].jobs_new
               = Cardinality({ i \in DOMAIN jobs' : i > Len(jobs) /\ jobs'[i].status = "scraped" })
    ]_vars

\* C9 witness: a save loop met a posting whose key was stored already with
\* another title; the stored row has the title of the first insert.
C9_Witness ==
  \E site \in Sites :
    /\ Len(last_save[site]) = 2
    /\ last_save[site][1].output = << JobData("e1", "t1", "indefinido") >>
    /\ last_save[site][2].output = << JobData("e1", "t2", "temporal") >>
    /\ \E i \in DOMAIN jobs :
         /\ jobs[i].site = site /\ jobs[i].external_id = "e1"
         /\ jobs[i].title = "t1" /\ jobs[i].status = "scraped"

\* C10: at any time at most one run of a given source is in status running.
C10_OneRunPerSource ==
  \A site \in Sites :
    Cardinality({ i \in SiteRuns(site) : scraper_runs[i].status = "running" }) <= 1

\* ---------------------------------------------------------------------
\* Properties of the review timer
\* ---------------------------------------------------------------------
\* C11: an application whose status is not pending_human_review has no live
\* expiry timer in the controller's map of pending timers.
C11_NoTimerOutsideReview ==
  \A a \in DOMAIN applications :
    applications[a].status # "pending_human_review" => timeout_tasks[a] = NoTimer

\* C12: a step of the expiry timer, the warning or the expiry, leaves every
\* application row, the Event log and the status writes as they were, and
\* the expiry is logged no earlier than timeout_minutes after the timer was
\* started at the transition into review.
C12_TimerChangesNoState ==
  [][ \A a \in AppIds :
        timer_log'[a] # timer_log[a] =>
          /\ applications' = applications
          /\ application_events' = application_events
          /\ status_writes' = status_writes
          /\ (timer_log'[a][Len(timer_log'[a])] = "expired" =>
                now >= timeout_tasks[a].started_at + human_review_timeout_minutes) ]_vars

\* C12 witness: the timer of an application warned and expired, and the
\* application is still pending_human_review.
C12_Witness ==
  \E a \in DOMAIN applications :
    /\ timer_log[a] = << "warning", "expired" >>
    /\ applications[a].status = "pending_human_review"
    /\ now >= human_review_timeout_minutes

\* ---------------------------------------------------------------------
\* Properties of the authorization fields
\* ---------------------------------------------------------------------
Authorized(row, a) ==
  row.authorized_by_human =>
    /\ row.authorized_at # NoTime
    /\ \E entered \in review_entries[a] : row.authorized_at >= entered

\* C13: an application with authorized_by_human = true, as stored or as held
\* by its Submit task, has authorized_at set, and authorized_at is not
\* earlier than the time the application entered pending_human_review.
C13_AuthorizedAtAfterReviewEntry ==
  /\ \A a \in DOMAIN applications : Authorized(applications[a], a)
  /\ \A t \in DOMAIN submit_tasks :
       Authorized(submit_tasks[t].app, submit_tasks[t].application_id)

\* C13 witness: a stored application was authorized some time after it
\* entered review.
C13_Witness ==
  \E a \in DOMAIN applications :
    /\ applications[a].authorized_by_human
    /\ \E entered \in review_entries[a] : applications[a].authorized_at > entered

\* ---------------------------------------------------------------------
\* Properties of the company policy
\* ---------------------------------------------------------------------
\* Two company names are the same name but for the case of their letters.
SameCompany(x, y) == py_lower(x) = py_lower(y)

\* The step creates an application for the company.
Creates(company) ==
  /\ Len(applications') = Len(applications) + 1
  /\ applications'[Len(applications')].company = company

\* The step refuses to create an application for the company with the status.
Refuses(company, st) ==
  /\ response' # response
  /\ response'.op = "create"
  /\ response'.status = st
  /\ response'.company = company

\* The rule (N, D) of a company: its row of the rules table, else the default.
RuleOf(company) ==
  LET rows == { r \in company_application_rules : SameCompany(r.company_name, company) } IN
  IF rows = {}
    THEN [ max_per_period |-> COMPANY_APPLICATION_RULES_DEFAULT_MAX,
           period_days |-> COMPANY_APPLICATION_RULES_DEFAULT_DAYS ]
    ELSE CHOOSE r \in rows : TRUE

\* The applications of the company created within the last period_days days
\* whose status is not rejected, withdrawn or expired.
RecentApplications(company) ==
  { a \in DOMAIN applications :
      /\ SameCompany(applications[a].company, company)
      /\ applications[a].status \notin { "rejected", "withdrawn", "expired" }
      /\ applications[a].created_at >= now - RuleOf(company).period_days * DayMinutes }

\* C14: an application is created for a company only while fewer than N
\* applications of the company count against its rule (N, D), and a creation
\* is refused for the rate limit only when N or more count.
C14_RateLimitEnforced ==
  [][ \A company \in Companies :
        /\ Creates(company) =>
             Cardinality(RecentApplications(company)) < RuleOf(company).max_per_period
        /\ Refuses(company, "rate_limited") =>
             Cardinality(RecentApplications(company)) >= RuleOf(company).max_per_period
    ]_vars

\* C15: no application is created for a company that has a blocklist entry
\* equal to its name but for case, and a creation refused for the blocklist
\* leaves the applications and the Event log unchanged.
C15_BlockedNeverCreated ==
  [][ \A company \in Companies :
        /\ Creates(company) =>
             ~\E entry \in company_blocklist : SameCompany(entry, company)
        /\ Refuses(company, "blocked") =>
             /\ applications' = applications
             /\ application_events' = application_events
    ]_vars

\* ---------------------------------------------------------------------
\* Properties of the confirmation classifier
\* ---------------------------------------------------------------------
Outcome(confirmed, signal) == [ confirmed |-> confirmed, signal |-> signal ]

C17_DetectionTerminates ==
  /\ [](detect.pc = "done" =>
          /\ detect.result.signal \in { "url_change", "success_text", "form_gone",
                                        "error_detected", "submitted_ambiguous" }
          /\ detect.result.confirmed <=>
                detect.result.signal \in { "url_change", "success_text", "form_gone" }
          /\ detect.screenshot_path # ""
          /\ detect.result.signal = "submitted_ambiguous" => detect.elapsed >= Deadline
          /\ (detect.passes = 0 \/ classify_tick(detect.form_present_initially,
                                                  Observe(detect.view)).signal
                                     = "submitted_ambiguous")
               => detect.result = Outcome(FALSE, "submitted_ambiguous"))
  /\ (detect.pc = "loop" ~> detect.pc = "done")

\* C17 witness: detection returned after the deadline without a positive
\* signal in any pass.
C17_Witness ==
  /\ detect.pc = "done"
  /\ detect.passes >= MaxPasses
  /\ detect.elapsed >= Deadline
  /\ detect.result = Outcome(FALSE, "submitted_ambiguous")

\* ---------------------------------------------------------------------
\* Properties of the SSE hub
\* ---------------------------------------------------------------------
Registered(clients) == { clients[i] : i \in DOMAIN clients }

\* C18: a broadcast enqueues its message for every registered subscriber
\* whose queue has room and keeps it registered, removes every registered
\* subscriber whose queue is full, and puts nothing on the queue of a
\* subscriber that is not registered.
C18_BroadcastDropsSlowClients ==
  [][ hub_broadcasts' = hub_broadcasts + 1 =>
        \A cid \in DOMAIN hub_queues :
          IF cid \in Registered(hub_clients)
            THEN IF Len(hub_queues[cid]) < MaxQueue
                   THEN /\ hub_queues'[cid] = Append(hub_queues[cid], hub_broadcasts')
                        /\ cid \in Registered(hub_clients')
                   ELSE /\ hub_queues'[cid] = hub_queues[cid]
                        /\ cid \notin Registered(hub_clients')
            ELSE /\ hub_queues'[cid] = hub_queues[cid]
                 /\ cid \notin Registered(hub_clients') ]_vars

\* C18 witness: a broadcast removed one subscriber for its full queue and
\* reached another subscriber that connected after it.
C18_Witness ==
  \E slow, other \in DOMAIN hub_queues :
    /\ slow < other
    /\ slow \notin Registered(hub_clients)
    /\ Len(hub_queues[slow]) = MaxQueue
    /\ hub_queues[slow][MaxQueue] < hub_broadcasts
    /\ other \in Registered(hub_clients)
    /\ hub_queues[other] # << >>
    /\ hub_queues[other][Len(hub_queues[other])] = hub_broadcasts

\* C20: cv_failed_validation, rejected, withdrawn and expired are terminal:
\* once the committed status of an application is one of them, no step
\* changes its status or appends an event to its log.
C20_TerminalIsFinal ==
  [][ \A a \in DOMAIN applications :
        applications[a].status \in Terminal =>
          /\ applications'[a].status = applications[a].status
          /\ application_events'[a] = application_events[a] ]_vars

\* The events of application a form a chain that ends in its status.
EventChain(a) ==
  LET evs == application_events[a] IN
  evs # << >> =>
    /\ evs[1].old_status = NULL
    /\ \A i \in 2..Len(evs) : evs[i].old_status = evs[i - 1].new_status
    /\ evs[Len(evs)].new_status = applications[a].status

\* C21: under every interleaving of the requests on an application, its
\* committed events form a chain: the first has old_status null, each later
\* one starts from the new_status of the one before it, and the last one
\* ends in the application's current status.
C21_EventsFormChain == \A a \in DOMAIN applications : EventChain(a)

\* ---------------------------------------------------------------------
\* Properties of CV generation
\* ---------------------------------------------------------------------
\* What the adapt_cv session logged, and the row it holds.
AdaptEvents == cv_task.sess.events
AdaptRow == cv_task.sess.app

\* C19: in adapt_cv, a validation with errors makes one transition, to
\* cv_failed_validation with the error list as the event's note, and stops:
\* no transition to cv_ready, the adapted document, score and rubric stay
\* as loaded, and generate_cv_pdf is not called.  A validation without
\* errors is followed by exactly one transition, to cv_ready, that carries
\* the adapted document, the score and the rubric.
C19_ValidationGate ==
  cv_task.validated =>
    IF cv_task.validation.errors # << >>
      THEN /\ cv_task.pc \in { "returned", "done" }
           /\ AdaptEvents = << ApplicationEvent(cv_task.loaded.status, "cv_failed_validation",
                                                "cv_adapter", cv_task.validation.errors) >>
           /\ AdaptRow.status = "cv_failed_validation"
           /\ AdaptRow.cv_adapted_json = cv_task.loaded.cv_adapted_json
           /\ AdaptRow.quality_score = cv_task.loaded.quality_score
           /\ AdaptRow.quality_rubric = cv_task.loaded.quality_rubric
           /\ AdaptRow.cv_pdf_path = cv_task.loaded.cv_pdf_path
           /\ cv_task.pdf_calls = 0
      ELSE IF cv_task.pc = "persist"
        THEN AdaptEvents = << >>
        ELSE /\ AdaptEvents = << ApplicationEvent(cv_task.loaded.status, "cv_ready",
                                                  "cv_adapter", NoNote) >>
             /\ AdaptRow.status = "cv_ready"
             /\ AdaptRow.cv_adapted_json = "adapted"
             /\ AdaptRow.quality_score \in Scores
             /\ AdaptRow.quality_rubric = score_cv(AdaptRow.quality_score)

\* C19 witness: adapt_cv has returned from a validation that found two errors.
C19_Witness ==
  /\ cv_task.pc = "done"
  /\ cv_task.validated
  /\ Len(cv_task.validation.errors) = 2
  /\ AdaptRow.status = "cv_failed_validation"

\* ---------------------------------------------------------------------
\* Properties of the eligibility filter
\* ---------------------------------------------------------------------
\* The posting process 1 has evaluated, its text and its verdict.
Evaluated == filter_procs[1].pc = "evaluated"
EvaluatedJob == filter_procs[1].job_data
EvaluatedText ==
  << Word(EvaluatedJob.title), Word(contract_type_expanded(EvaluatedJob.contract_type)) >>
  \o EvaluatedJob.description
EvaluatedReason == filter_procs[1].result.reason

\* What triggers each rule on the evaluated posting.
TemporalTriggered ==
  \E i \in DOMAIN EvaluatedText :
    EvaluatedText[i].kind = "word" /\ EvaluatedText[i].text \in TEMPORAL_KEYWORDS

ParttimeTriggered ==
  \E i \in DOMAIN EvaluatedText :
    EvaluatedText[i].kind = "word" /\ EvaluatedText[i].text \in PARTTIME_KEYWORDS

\* Some captured hour count is under 35.
HoursTriggered ==
  \E i \in DOMAIN EvaluatedText :
    /\ EvaluatedText[i].kind = "hours"
    /\ \E k \in DOMAIN Captured(EvaluatedText[i]) : Captured(EvaluatedText[i])[k] < 35

\* The candidates of the salary rule: from salary_raw when it is not empty,
\* otherwise from the description.
SalaryCandidates ==
  IF EvaluatedJob.salary_raw # << >> THEN parse_salary_amounts(EvaluatedJob.salary_raw)
  ELSE parse_salary_amounts(EvaluatedJob.description)

MeetsThreshold(candidate) ==
  \/ candidate.period_type = "monthly" /\ candidate.amount >= 1134
  \/ candidate.period_type = "annual" /\ candidate.amount >= 15876

\* At least one candidate was parsed and none meets its threshold.
SalaryTriggered ==
  /\ SalaryCandidates # << >>
  /\ \A i \in DOMAIN SalaryCandidates : ~MeetsThreshold(SalaryCandidates[i])

\* C22: the rules are applied in the order temporal contract, part-time
\* keyword, hour count, salary, and the first disqualification wins: the
\* reason is that of the earliest triggered rule, and a posting that triggers
\* none is eligible with no reason.
C22_FirstDisqualificationWins ==
  Evaluated =>
    /\ filter_procs[1].result.eligible
         = ~(TemporalTriggered \/ ParttimeTriggered \/ HoursTriggered \/ SalaryTriggered)
    /\ filter_procs[1].result.eligible => EvaluatedReason = NoReason
    /\ TemporalTriggered => EvaluatedReason.rule = "temporal contract detected"
    /\ ~TemporalTriggered /\ ParttimeTriggered => EvaluatedReason.rule = "part-time detected"
    /\ ~TemporalTriggered /\ ~ParttimeTriggered /\ HoursTriggered
         => EvaluatedReason.rule = "part-time hours detected"
    /\ ~TemporalTriggered /\ ~ParttimeTriggered /\ ~HoursTriggered /\ SalaryTriggered
         => EvaluatedReason.rule = "salary too low for canje"

\* C22 witness: a posting with a temporal contract and a salary under the
\* minimum was disqualified.
C22_Witness ==
  /\ Evaluated
  /\ TemporalTriggered
  /\ SalaryTriggered
  /\ ~filter_procs[1].result.eligible

C25_SameVerdictInEveryProcess ==
  \A p, q \in 1..MaxProcesses :
    /\ filter_procs[p].pc = "evaluated"
    /\ filter_procs[q].pc = "evaluated"
    /\ filter_procs[p].job_data = filter_procs[q].job_data
    => filter_procs[p].result = filter_procs[q].result

\* ---------------------------------------------------------------------
\* Properties of the form replay
\* ---------------------------------------------------------------------
\* C26: after Detect, Fill, Snapshot and Replay on a fresh load of the same
\* page, reading every field yields the value the snapshot stores for it,
\* and _verify_fields reports no mismatch; for text, textarea, select,
\* checkbox and radio fields, a checkbox or radio snapshotted as unchecked
\* included.
C26_SnapshotRoundTrip ==
  form_replay.pc = "verified" =>
    /\ serialize_fields(form_replay.dom) = form_replay.form_fields_json
    /\ form_replay.mismatches = {}

\* ---------------------------------------------------------------------
\* Properties of cancelled scraper runs
\* ---------------------------------------------------------------------
\* C27: a run cancelled after its run row was created has that row finalised
\* as failed with an error message; no cancelled run leaves its row in
\* status running.
C27_CancelledRunIsFailed ==
  \A id \in cancelled_runs :
    /\ scraper_runs[id].status = "failed"
    /\ scraper_runs[id].error_message # NULL

\* ---------------------------------------------------------------------
\* Properties of the retention sweep
\* ---------------------------------------------------------------------
\* C28: after any retention sweep referential integrity holds: every
\* application references a stored posting (a referenced posting is never
\* deleted) and every event references a stored application.
C28_ReferentialIntegrity ==
  /\ \A application \in retention.applications :
        \E job \in retention.jobs : job.id = application.job_id
  /\ \A event \in retention.application_events :
        \E application \in retention.applications : application.id = event.application_id

C30_EventPairsAreEdges ==
  LET LegalPair(old_status, new_status) ==
        \/ old_status = NULL /\ new_status = "scraped"
        \/ << old_status, new_status >> \in Edges
  IN /\ \A a \in AppIds : \A i \in DOMAIN application_events[a] :
          LET ev == application_events[a][i] IN
            /\ LegalPair(ev.old_status, ev.new_status)
            /\ ev.old_status = "pending_human_review"
                 => ev.new_status \in { "submitted_ambiguous", "applied", "rejected",
                                        "withdrawn", "expired" }
     /\ \A t \in DOMAIN submit_tasks : \A i \in DOMAIN submit_tasks[t].events :
          LegalPair(submit_tasks[t].events[i].old_status,
                    submit_tasks[t].events[i].new_status)

C32_FileInputReplayed ==
  \A ref \in DOMAIN form_replay.filled :
    LET uploaded == form_replay.filled[ref] IN
    (uploaded.type = "file" /\ uploaded.value # "")
    => /\ form_replay.form_fields_json[ref] = Str(uploaded.value)
       /\ form_replay.pc \in { "replayed", "verified" }
            => form_replay.dom[ref].value = uploaded.value

\* C33: for every adapted experience entry whose normalised company matches
\* an original entry, if the smallest or the largest year of the two dates
\* differs by more than 1 between the original and the adapted entry,
\* validate_cv reports an error and does not pass; when every matching
\* entry differs by at most 1 at both extremes and no company was removed
\* or added, validate_cv passes.
C33_DateDriftRejected ==
  drift.pc = "validated" =>
    LET years(entry) == SelectSeq(<< entry.start_date, entry.end_date >>,
                                  LAMBDA d : d # NoYear)
        by_company == orig_by_company(drift.original)
        matched == { i \in DOMAIN drift.adapted :
                       normalise_company(drift.adapted[i].company) \in DOMAIN by_company }
        drifted(i) ==
          LET orig == years(by_company[normalise_company(drift.adapted[i].company)])
              adap == years(drift.adapted[i]) IN
          /\ orig # << >>
          /\ adap # << >>
          /\ \/ abs(min(orig) - min(adap)) > 1
             \/ abs(max(orig) - max(adap)) > 1
    IN /\ (\E i \in matched : drifted(i))
            => ~drift.validation.passed /\ Len(drift.validation.errors) >= 1
       /\ ( /\ \A i \in matched : ~drifted(i)
            /\ matched = DOMAIN drift.adapted
            /\ \A j \in DOMAIN drift.original :
                 \E i \in DOMAIN drift.adapted :
                   normalise_company(drift.adapted[i].company)
                     = normalise_company(drift.original[j].company)
            /\ Len(drift.adapted) = Len(drift.original) )
            => drift.validation.passed

\* C34: one call of generate makes at most two HTTP attempts; a second
\* attempt is made only after the first timed out and one restart of the
\* backend was made; an error that is not a timeout on either attempt, and
\* a timeout on the second, is raised with no attempt and no restart after
\* it.
C34_AtMostOneRetry ==
  /\ [](/\ Len(ollama.posts) <= 2
        /\ ollama.restarts <= 1
        /\ Len(ollama.posts) = 2 => ollama.posts[1] = "timeout" /\ ollama.restarts = 1
        /\ ollama.restarts = 1 => ollama.posts[1] = "timeout"
        /\ \A i \in DOMAIN ollama.posts :
             ( \/ ollama.posts[i] = "error"
               \/ ollama.posts[i] = "timeout" /\ i = 2 )
             => /\ i = Len(ollama.posts)
                /\ ollama.pc = "raised"
                /\ ollama.result = (IF ollama.posts[i] = "timeout"
                                      THEN "TimeoutException" ELSE "Exception"))
  /\ [][ ollama.pc = "raised"
          => /\ ollama'.pc = "idle"
             /\ ollama'.history = Append(ollama.history, << ollama.posts, ollama.restarts >>) ]_vars

\* C34 witness: a call whose first attempt timed out, that restarted the
\* backend once and whose second attempt timed out too, has raised.
C34_Witness ==
  /\ ollama.pc = "raised"
  /\ ollama.posts = << "timeout", "timeout" >>
  /\ ollama.restarts = 1

\* C35: a failure of an LLM call does not by itself stop the CV pipeline:
\* when the rewrite, the fabrication detector, the summary or the quality
\* call raised, a pipeline whose validation found no error still makes the
\* transition to cv_ready; a fabrication call that raised adds no error, a
\* quality call that raised gives the fallback score, and the only failures
\* of adapt_cv are a missing canonical CV and a failed rendering.
C35_LlmFailureIsNotFatal ==
  /\ ("fabrication" \in cv_task.raised /\ cv_task.validated)
       => \A i \in DOMAIN cv_task.validation.errors :
            cv_task.validation.errors[i] # "Fabrication detected"
  /\ (cv_task.validated /\ cv_task.validation.passed /\ cv_task.pc # "persist")
       => /\ cv_task.sess.app.status = "cv_ready"
          /\ cv_task.sess.events
               = << ApplicationEvent(cv_task.loaded.status, "cv_ready", "cv_adapter", NoNote) >>
          /\ "quality" \in cv_task.raised
               => cv_task.sess.app.quality_score = fallback_overall
  /\ cv_task.pc = "failed" => cv_task.result \in { "ValueError", "RenderError" }
  /\ (cv_task.validated /\ cv_task.pc = "failed") => cv_task.result = "RenderError"

\* C35 witness: adapt_cv has returned passed from a run in which all four
\* LLM calls raised.
C35_Witness ==
  /\ cv_task.pc = "returned"
  /\ cv_task.result = "passed"
  /\ cv_task.raised = { "rewrite", "fabrication", "summary", "quality" }
  /\ cv_task.sess.app.status = "cv_ready"

\* C36: a checkpoint saved during one run of a source is what the next run
\* of that source preloads: when run k saved checkpoint c and finished, a
\* _load_checkpoint made during run k+1 before that run saved a checkpoint
\* of its own returned c.
C36_CheckpointPreloaded ==
  \A r \in DOMAIN scraper_runs :
    LET load == checkpoint.loads[r]
        earlier == { k \in SiteRuns(scraper_runs[r].site) : k < r } IN
    (load.loaded /\ load.own = NULL /\ earlier # {}
       /\ scraper_runs[Max(earlier)].status = "completed"
       /\ checkpoint.checkpoint_json[Max(earlier)] # NULL)
    => load.result = checkpoint.checkpoint_json[Max(earlier)]

\* C37: when a posting already stored under (source, external id) is scraped
\* again and the eligibility filter's result for it differs from the one
\* recorded at the first insert, the stored row's _skip_reason is updated to
\* the new result: after every save, the _skip_reason of a stored row is
\* the filter's result for the posting as it was last scraped.
C37_SkipReasonFollowsEligibility ==
  \A site \in Sites : \A n \in DOMAIN last_save[site] :
    LET save == last_save[site][n] IN
    \A i \in DOMAIN save.output :
      (\A j \in DOMAIN save.output :
         save.output[j].external_id = save.output[i].external_id => j <= i)
      => \A r \in Existing(save.jobs_after, site, save.output[i].external_id) :
           save.jobs_after[r].skip_reason = is_eligible(save.output[i]).reason

\* C38: for one review of an application at most one Submit task is started
\* and at most one submit click is made, under any interleaving of
\* concurrent authorize requests: the Submit tasks of an application, and
\* the clicks made for it, are at most as many as its committed entries into
\* pending_human_review.
C38_OneSubmitPerReview ==
  \A a \in AppIds :
    LET reviews == { i \in DOMAIN application_events[a] :
                      application_events[a][i].new_status = "pending_human_review" }
        tasks == { t \in DOMAIN submit_tasks : submit_tasks[t].application_id = a }
    IN /\ Cardinality(tasks) <= Cardinality(reviews)
       /\ submit_clicks[a] <= Cardinality(reviews)

\* C39: when a Submit task returned applied or submitted_ambiguous, that
\* status with its Event, confirmation signal and screenshot path is
\* committed: once the task's session is closed, the stored Event log holds
\* the task's Event, the stored row holds the signal and the screenshot
\* path, and the stored status is the returned one as long as no later
\* Event follows.
C39_SubmitOutcomeCommitted ==
  \A t \in DOMAIN submit_tasks :
    LET task == submit_tasks[t]
        a == task.application_id IN
    (task.pc = "closed" /\ task.result \in { "applied", "submitted_ambiguous" })
    => /\ \E i \in DOMAIN application_events[a] :
            /\ application_events[a][i].new_status = task.result
            /\ application_events[a][i].triggered_by = "human_loop.submit_authorized"
            /\ i = Len(application_events[a]) => applications[a].status = task.result
       /\ applications[a].confirmation_signal = task.signal
       /\ applications[a].confirmation_screenshot_path = task.screenshot_path

\* C40: in every reachable state the map of pending timers holds at most
\* one timer per application id and no application has two live timers; a
\* timer that was replaced by a later prepare_for_review of its application
\* or removed by _cancel_timeout_task emits no warning and no expiry after
\* that; an expiring timer removes its own map entry only.
C40_OneTimerPerApplication ==
  /\ \A a \in 1..MaxTimerApps :
       LET live == { i \in DOMAIN timers.tasks :
                      /\ timers.tasks[i].application_id = a
                      /\ ~done(timers.tasks[i])
                      /\ ~timers.tasks[i].cancelling } IN
       /\ Cardinality(live) <= 1
       /\ live \subseteq { timers.timeout_tasks[a] }
  /\ \A n \in DOMAIN timers.emitted :
       LET e == timers.emitted[n] IN
       /\ timers.detached[e.task] # NoTime => n <= timers.detached[e.task]
       /\ e.kind = "expired" => e.popped = e.task

\* C40 witness: a timer was replaced by a later prepare_for_review of its
\* application and cancelled, its first deadline has passed and it emitted
\* nothing; the timer that replaced it has expired and popped its own entry.
C40_Witness ==
  \E i, j \in DOMAIN timers.tasks :
    /\ i < j
    /\ timers.tasks[i].application_id = timers.tasks[j].application_id
    /\ timers.tasks[i].state = "cancelled"
    /\ timers.now >= timers.tasks[i].wake_at
    /\ timers.detached[i] # NoTime
    /\ \A n \in DOMAIN timers.emitted : timers.emitted[n].task # i
    /\ timers.tasks[j].state = "done"
    /\ \E n \in DOMAIN timers.emitted :
         /\ timers.emitted[n].task = j
         /\ timers.emitted[n].kind = "expired"
         /\ timers.emitted[n].popped = j

====
